---- MODULE Spec2Model ----
(***************************************************************************)
(* Osprey: an in-memory key-value store with a write-ahead log, snapshots  *)
(* and a manifest.  The module models the persistent store (store.go,      *)
(* persistent_store.go), the WAL manager and reader, the snapshot manager  *)
(* and the server's command dispatch, as a state machine over the process' *)
(* memory, its locks, and the files of the data directory.                 *)
(*                                                                         *)
(* Abstractions: keys and values are byte sequences; the clock is a small  *)
(* integer; a WAL record occupies one unit of segment size; a record whose *)
(* bytes fail the reader's checks (short read, magic, version, CRC) is the *)
(* record BadRecord.  The WAL is written with sync policy "always", so a   *)
(* record that Append returned success for is on disk.                     *)
(***************************************************************************)
EXTENDS Integers, Sequences, FiniteSets, Bags, TLC

VARIABLES
    phase,          \* "up": the server process runs; "stopped", "crashed": it does not
    now,            \* time.Now().UnixMilli()
    data,           \* Store.data: map key -> Entry
    expiryHeap,     \* Store.expiryHeap: bag of [Key, ExpiryMs] nodes
    walFiles,       \* data directory: WAL segment index -> sequence of records
    walIndex,       \* WALManager.walIndex
    curWAL,         \* index of the segment WALManager.currentWAL writes to
    walClosed,      \* WALManager.currentWAL's file has been closed
    snapFiles,      \* data directory: snapshot index -> set of snapshot records
    manifest,       \* MANIFEST.json: NoManifest or [Snap, NextWAL]
    snapIndex,      \* SnapshotManager.snapIndex
    snapshotPaused, \* PersistentStore.snapshotPaused (0 or 1)
    snapPc,         \* position of the snapshot worker in createSnapshot
    snapCurrentWAL, \* createSnapshot's local currentWAL
    psMu,           \* holder of PersistentStore.mu
    storeMu,        \* holder of Store.mu (write side)
    walMu,          \* holder of WALManager.mu
    conn,           \* connection handler -> [pc, cmd, n]: position, command, pairs left
    sweepPc,        \* position of the expiry sweeper
    opCount,        \* number of mutating commands routed to a handler so far
    starts,         \* number of process starts so far
    lastOp,         \* the reply or lifecycle event of the step just taken, if any
    acked,          \* key -> what the last write to it left, if the server acknowledged it
    preData,        \* Store.data at the last shutdown or kill
    produced,       \* key -> the version the last successful SET/INCR/DECR returned
    applied,        \* step by step: the WAL records built for the changes made to
                    \* Store.data, in the order of the changes, each with its thread
    manifestDir,    \* system call by system call: MANIFEST.tmp and MANIFEST.json as
                    \* the kernel holds them and as the disk holds them
    wire            \* byte by byte: one connection's stream, what handleConnection
                    \* has read of it and the replies it has written

vars == <<phase, now, data, expiryHeap, walFiles, walIndex, curWAL, walClosed,
          snapFiles, manifest, snapIndex, snapshotPaused, snapPc,
          snapCurrentWAL, psMu, storeMu, walMu, conn, sweepPc, opCount,
          starts, lastOp, acked, preData, produced, applied, manifestDir, wire>>

---------------------------------------------------------------------------
(* Bounds of the model *)

MaxTime == 4
MaxOps == 2
MaxCmdOps == 3
MaxStoreOps == 2
MaxStarts == 2
MaxSnaps == 1
WalMaxRecords == 2
SweepBatch == 2
MSetPairs == 2

(* Program constants *)

NoExpiry == -1

(* Config.MaxKeyBytes and Config.MaxValueBytes as the store's size-limit test *)
(* configures them                                                          *)
MaxKeyBytes == 10
MaxValueBytes == 20
RecordTypeSET == 0
RecordTypeDEL == 1
RecordTypeEXPIRE == 2

---------------------------------------------------------------------------
(* Inputs *)

K1 == <<107>>
Keys == {K1}

(* a key with a control byte: the parser's strings.Fields keeps it in one token, *)
(* validateKey rejects it                                                       *)
KBad == <<1>>
CmdKeys == {K1, KBad}

ValA == <<97>>
Values == {ValA}

Clients == {"c1"}

PlainOpts ==
    [ExpiryMs |-> 0, AbsoluteExpiryMs |-> 0, NX |-> FALSE, XX |-> FALSE,
     CheckVersion |-> FALSE, Version |-> 0]

SetOptionsSet ==
    { PlainOpts,
      [PlainOpts EXCEPT !.ExpiryMs = 1],
      [PlainOpts EXCEPT !.AbsoluteExpiryMs = 1],
      [PlainOpts EXCEPT !.AbsoluteExpiryMs = 3],
      [PlainOpts EXCEPT !.NX = TRUE],
      [PlainOpts EXCEPT !.XX = TRUE],
      [PlainOpts EXCEPT !.CheckVersion = TRUE, !.Version = 1] }

(* the option tokens of a SET command line, after the key and the length *)
Opt(name, val) == [opt |-> name, val |-> val]

SetArgLists ==
    { <<>>,
      <<Opt("EX", 1)>>,
      <<Opt("PXAT", 1)>>,
      <<Opt("PXAT", 3)>>,
      <<Opt("NX", 0)>>,
      <<Opt("XX", 0)>>,
      <<Opt("VER", 1)>> }

(* further command lines: both EX and PXAT, an unknown option, a second version *)
CmdArgLists ==
    SetArgLists \cup
    { <<Opt("EX", 1), Opt("PXAT", 3)>>,
      <<Opt("EX", 0), Opt("PXAT", 3)>>,
      <<Opt("VER", 2)>>,
      <<Opt("KEEPTTL", 0)>> }

TTLs == {1}
Deltas == {1}

---------------------------------------------------------------------------
(* Maps *)

MapPutIfAbsent(m, k, v) ==
    [x \in DOMAIN m \cup {k} |-> IF x \in DOMAIN m THEN m[x] ELSE v]

MapPut(m, k, v) == [x \in DOMAIN m \cup {k} |-> IF x = k THEN v ELSE m[x]]
MapDel(m, k) == [x \in DOMAIN m \ {k} |-> m[x]]
EmptyMap == [x \in {} |-> 0]

---------------------------------------------------------------------------
(* entry.go *)

NewEntry(value, version, expiryMs) ==
    [Value |-> value, Version |-> version, ExpiryMs |-> expiryMs,
     SizeBytes |-> Len(value)]

NilEntry == NewEntry(<<>>, 0, NoExpiry)

IsExpiredLe(e, t) ==
    IF e.ExpiryMs < 0 THEN FALSE ELSE t >= e.ExpiryMs

IsExpired(e, t) ==
    IF e.ExpiryMs < 0 THEN FALSE ELSE t > e.ExpiryMs

(* a TTL that reports the time since the expiry as a negative number *)
EntryTTLSigned(e, t) ==
    IF e.ExpiryMs < 0 THEN -1 ELSE e.ExpiryMs - t

EntryTTL(e, t) ==
    IF e.ExpiryMs < 0 THEN -1
    ELSE IF e.ExpiryMs - t < 0 THEN -2 ELSE e.ExpiryMs - t

---------------------------------------------------------------------------
(* strconv.ParseInt(s, 10, 64) and strconv.FormatInt(n, 10); the 64-bit   *)
(* range is scaled to IntBits bits.                                        *)

IntBits == 8
IntMax == 2 ^ (IntBits - 1) - 1
IntMin == -(2 ^ (IntBits - 1))

IsDigit(b) == b >= 48 /\ b <= 57

RECURSIVE DigitsValue(_)
DigitsValue(s) ==
    IF Len(s) = 0 THEN 0
    ELSE DigitsValue(SubSeq(s, 1, Len(s) - 1)) * 10 + (s[Len(s)] - 48)

ParseInt(s) ==
    LET signed == Len(s) > 0 /\ s[1] \in {43, 45}
        digits == IF signed THEN SubSeq(s, 2, Len(s)) ELSE s
        neg    == signed /\ s[1] = 45
    IN  IF Len(digits) = 0 \/ Len(digits) > 3
           \/ \E i \in 1..Len(digits) : ~IsDigit(digits[i])
        THEN [ok |-> FALSE, val |-> 0]
        ELSE LET v == IF neg THEN -DigitsValue(digits) ELSE DigitsValue(digits)
             IN  IF v < IntMin \/ v > IntMax
                 THEN [ok |-> FALSE, val |-> 0]
                 ELSE [ok |-> TRUE, val |-> v]

RECURSIVE FormatNat(_)
FormatNat(n) ==
    IF n < 10 THEN <<48 + n>> ELSE FormatNat(n \div 10) \o <<48 + (n % 10)>>

FormatInt(n) == IF n < 0 THEN <<45>> \o FormatNat(-n) ELSE FormatNat(n)

(* Go's int64 addition wraps around *)
AddInt(a, b) ==
    LET s == a + b
    IN  IF s > IntMax THEN s - 2 ^ IntBits
        ELSE IF s < IntMin THEN s + 2 ^ IntBits ELSE s

---------------------------------------------------------------------------
(* store.go *)

(* a validation that lets the DEL byte through *)
validateKeyNoDel(key) ==
    IF \E i \in 1..Len(key) : key[i] = 32 \/ key[i] <= 31
    THEN "KeyInvalid" ELSE ""

validateKey(key) ==
    IF \E i \in 1..Len(key) : key[i] = 32 \/ key[i] <= 31 \/ key[i] = 127
    THEN "KeyInvalid" ELSE ""

(* a push that drops the node *)
HeapPushDropped(h, key, expiryMs) == h

HeapPush(h, key, expiryMs) == h (+) SetToBag({[Key |-> key, ExpiryMs |-> expiryMs]})

(* Store.Get: [err, entry, data]; an expired entry is deleted lazily *)
StoreGet(d, key, t) ==
    IF validateKey(key) # "" THEN [err |-> "KeyInvalid", entry |-> NilEntry, data |-> d]
    ELSE IF key \notin DOMAIN d THEN [err |-> "KeyNotFound", entry |-> NilEntry, data |-> d]
    ELSE IF IsExpired(d[key], t)
         THEN [err |-> "KeyNotFound", entry |-> NilEntry, data |-> MapDel(d, key)]
         ELSE [err |-> "", entry |-> d[key], data |-> d]

(* Store.Exists *)
StoreExists(d, key, t) ==
    IF validateKey(key) # "" THEN FALSE
    ELSE key \in DOMAIN d /\ ~IsExpired(d[key], t)

(* Store.TTL *)
StoreTTL(d, key, t) ==
    IF validateKey(key) # "" THEN -2
    ELSE IF key \notin DOMAIN d THEN -2 ELSE EntryTTL(d[key], t)

SetNewVersionStale(d, key, t) ==
    IF key \in DOMAIN d /\ ~IsExpired(d[key], t) THEN d[key].Version ELSE 1

SetNewVersion(d, key, t) ==
    IF key \in DOMAIN d /\ ~IsExpired(d[key], t) THEN d[key].Version + 1 ELSE 1

SetExpiry(opts, t) ==
    IF opts.ExpiryMs > 0 THEN t + opts.ExpiryMs
    ELSE IF opts.AbsoluteExpiryMs > 0 THEN opts.AbsoluteExpiryMs
    ELSE NoExpiry

(* a Set that validates the key's bytes before it tests the key's length *)
StoreSetValidateFirst(d, h, key, value, opts, t) ==
    LET live == key \in DOMAIN d /\ ~IsExpired(d[key], t)
        fail(e) == [err |-> e, version |-> 0, data |-> d, heap |-> h]
    IN  IF validateKey(key) # "" THEN fail("KeyInvalid")
        ELSE IF Len(key) > MaxKeyBytes THEN fail("KeyTooLarge")
        ELSE IF Len(value) > MaxValueBytes THEN fail("ValueTooLarge")
        ELSE IF opts.NX /\ live THEN fail("KeyExists")
        ELSE IF opts.XX /\ ~live THEN fail("KeyNotFound")
        ELSE IF opts.CheckVersion /\ live /\ d[key].Version # opts.Version
             THEN fail("VersionMismatch")
        ELSE [err |-> "", version |-> SetNewVersion(d, key, t),
              data |-> MapPut(d, key, NewEntry(value, SetNewVersion(d, key, t), SetExpiry(opts, t))),
              heap |-> IF SetExpiry(opts, t) > 0 THEN HeapPush(h, key, SetExpiry(opts, t)) ELSE h]

(* a Set that applies NX and XX to any entry in the map, expired or not *)
StoreSetExpiredCounts(d, h, key, value, opts, t) ==
    LET fail(e) == [err |-> e, version |-> 0, data |-> d, heap |-> h]
    IN  IF Len(key) > MaxKeyBytes THEN fail("KeyTooLarge")
        ELSE IF validateKey(key) # "" THEN fail("KeyInvalid")
        ELSE IF Len(value) > MaxValueBytes THEN fail("ValueTooLarge")
        ELSE IF opts.NX /\ key \in DOMAIN d THEN fail("KeyExists")
        ELSE IF opts.XX /\ key \notin DOMAIN d THEN fail("KeyNotFound")
        ELSE IF opts.CheckVersion /\ key \in DOMAIN d /\ d[key].Version # opts.Version
             THEN fail("VersionMismatch")
        ELSE [err |-> "", version |-> SetNewVersion(d, key, t),
              data |-> MapPut(d, key, NewEntry(value, SetNewVersion(d, key, t), SetExpiry(opts, t))),
              heap |-> IF SetExpiry(opts, t) > 0 THEN HeapPush(h, key, SetExpiry(opts, t)) ELSE h]

(* Store.Set: [err, version, data, heap] *)
StoreSet(d, h, key, value, opts, t) ==
    LET live == key \in DOMAIN d /\ ~IsExpired(d[key], t)
        fail(e) == [err |-> e, version |-> 0, data |-> d, heap |-> h]
    IN  IF Len(key) > MaxKeyBytes THEN fail("KeyTooLarge")
        ELSE IF validateKey(key) # "" THEN fail("KeyInvalid")
        ELSE IF Len(value) > MaxValueBytes THEN fail("ValueTooLarge")
        ELSE IF opts.NX /\ live THEN fail("KeyExists")
        ELSE IF opts.XX /\ ~live THEN fail("KeyNotFound")
        ELSE IF opts.CheckVersion /\ live /\ d[key].Version # opts.Version
             THEN fail("VersionMismatch")
        ELSE LET newVersion == SetNewVersion(d, key, t)
                 expiryMs   == SetExpiry(opts, t)
             IN  [err |-> "", version |-> newVersion,
                  data |-> MapPut(d, key, NewEntry(value, newVersion, expiryMs)),
                  heap |-> IF expiryMs > 0 THEN HeapPush(h, key, expiryMs) ELSE h]

(* a Delete that removes nothing *)
StoreDeleteNone(d, key, t) == [deleted |-> FALSE, data |-> d]

(* Store.Delete: [deleted, data] *)
StoreDelete(d, key, t) ==
    IF validateKey(key) # "" THEN [deleted |-> FALSE, data |-> d]
    ELSE IF key \notin DOMAIN d \/ IsExpired(d[key], t)
         THEN [deleted |-> FALSE, data |-> d]
         ELSE [deleted |-> TRUE, data |-> MapDel(d, key)]

(* Store.Expire: [err, data, heap] *)
StoreExpire(d, h, key, ttlMs, t) ==
    IF validateKey(key) # "" THEN [err |-> "KeyInvalid", data |-> d, heap |-> h]
    ELSE IF key \notin DOMAIN d \/ IsExpired(d[key], t)
         THEN [err |-> "KeyNotFound", data |-> d, heap |-> h]
         ELSE [err |-> "",
               data |-> [d EXCEPT ![key].ExpiryMs = t + ttlMs],
               heap |-> HeapPush(h, key, t + ttlMs)]

(* an Incr that always starts a new version history *)
StoreIncrFirstVersion(d, key, delta, t) ==
    LET live == key \in DOMAIN d /\ ~IsExpired(d[key], t)
        p    == IF live THEN ParseInt(d[key].Value) ELSE [ok |-> TRUE, val |-> 0]
    IN  IF validateKey(key) # "" THEN [err |-> "KeyInvalid", newVal |-> 0, data |-> d]
        ELSE IF ~p.ok THEN [err |-> "NotInteger", newVal |-> 0, data |-> d]
        ELSE [err |-> "", newVal |-> AddInt(p.val, delta),
              data |-> MapPut(d, key, NewEntry(FormatInt(AddInt(p.val, delta)), 1, NoExpiry))]

(* Store.Incr: [err, newVal, data] *)
StoreIncr(d, key, delta, t) ==
    LET live == key \in DOMAIN d /\ ~IsExpired(d[key], t)
        p    == IF live THEN ParseInt(d[key].Value) ELSE [ok |-> TRUE, val |-> 0]
    IN  IF validateKey(key) # "" THEN [err |-> "KeyInvalid", newVal |-> 0, data |-> d]
        ELSE IF ~p.ok THEN [err |-> "NotInteger", newVal |-> 0, data |-> d]
        ELSE LET newVal == AddInt(p.val, delta)
                 newVersion == IF live THEN d[key].Version + 1 ELSE 1
             IN  [err |-> "", newVal |-> newVal,
                  data |-> MapPut(d, key, NewEntry(FormatInt(newVal), newVersion, NoExpiry))]

(* the entries a reader can see at time t *)
LiveKeys(d, t) == {k \in DOMAIN d : ~IsExpired(d[k], t)}
LiveView(d, t) == [k \in LiveKeys(d, t) |-> d[k]]

---------------------------------------------------------------------------
(* WAL segment: record, Append, IsFull; WAL reader *)

WALRecord(type, key, value, expiryMs, version) ==
    [Type |-> type, Key |-> key, Value |-> value, ExpiryMs |-> expiryMs,
     Version |-> version, Valid |-> TRUE]

(* bytes that fail ReadRecord: a short read, a bad magic or version, a CRC mismatch *)
BadRecord == [WALRecord(RecordTypeSET, <<>>, <<>>, 0, 0) EXCEPT !.Valid = FALSE]

WALIsFull(seg) == Len(seg) >= WalMaxRecords

(* WALReader.ReadRecord at position i of a segment: [err, record] *)
ReadRecord(seg, i) ==
    IF i > Len(seg) THEN [err |-> "EOF", record |-> BadRecord]
    ELSE IF ~seg[i].Valid THEN [err |-> "Corrupted", record |-> BadRecord]
    ELSE [err |-> "", record |-> seg[i]]

---------------------------------------------------------------------------
(* wal_manager.go *)

MaxIndex(S) == IF S = {} THEN 0 ELSE CHOOSE m \in S : \A x \in S : x <= m
MinIndex(S) == CHOOSE m \in S : \A x \in S : m <= x

(* a WAL manager that removes the oldest segment when it starts *)
NewWALManagerPruning(files) ==
    LET idx  == MaxIndex(DOMAIN files) + 1
        kept == IF DOMAIN files = {} THEN files
                ELSE [i \in DOMAIN files \ {MinIndex(DOMAIN files)} |-> files[i]]
    IN  [walIndex |-> idx,
         files |-> [i \in DOMAIN kept \cup {idx} |-> IF i = idx THEN <<>> ELSE kept[i]]]

(* NewWALManager: the next index after the last segment found, and a new, empty segment *)
NewWALManager(files) ==
    LET idx == MaxIndex(DOMAIN files) + 1
    IN  [walIndex |-> idx, files |-> MapPut(files, idx, <<>>)]

(* WALManager.rotateWAL (NewWAL succeeds): [files, cur, idx] *)
RotateWAL(files, idx) ==
    [files |-> IF idx + 1 \in DOMAIN files THEN files ELSE MapPut(files, idx + 1, <<>>),
     cur |-> idx + 1, idx |-> idx + 1]

(* WALManager.AppendRecord: [err, files, cur, idx].  outcome: "ok"; "fail": *)
(* the write fails and leaves nothing behind; "syncfail": the record is    *)
(* written and the fsync after it fails.                                   *)
AppendRecord(files, cur, idx, closed, rec, outcome) ==
    IF closed THEN [err |-> "WAL", files |-> files, cur |-> cur, idx |-> idx]
    ELSE LET r == IF WALIsFull(files[cur]) THEN RotateWAL(files, idx)
                  ELSE [files |-> files, cur |-> cur, idx |-> idx]
         IN  IF outcome = "fail"
             THEN [err |-> "WAL", files |-> r.files, cur |-> r.cur, idx |-> r.idx]
             ELSE [err |-> IF outcome = "ok" THEN "" ELSE "WAL",
                   files |-> [r.files EXCEPT ![r.cur] = Append(@, rec)],
                   cur |-> r.cur, idx |-> r.idx]

(* WALManager.GetWALsForReplay: [err, segs]; startWAL = 0 stands for "" *)
GetWALsForReplay(files, startWAL) ==
    IF startWAL = 0 THEN [err |-> "", segs |-> DOMAIN files]
    ELSE IF startWAL \notin DOMAIN files THEN [err |-> "StartWALNotFound", segs |-> {}]
    ELSE [err |-> "", segs |-> {i \in DOMAIN files : i >= startWAL}]

(* a deletion that also removes the segment it is asked to keep from *)
DeleteOldWALsThrough(files, keepFromWAL) ==
    [i \in {j \in DOMAIN files : j > keepFromWAL} |-> files[i]]

(* WALManager.DeleteOldWALs *)
DeleteOldWALs(files, keepFromWAL) ==
    [i \in {j \in DOMAIN files : ~(j < keepFromWAL)} |-> files[i]]

---------------------------------------------------------------------------
(* snapshot_manager.go, snapshot.go *)

NoManifest == [Snap |-> 0, NextWAL |-> 0]

(* a MANIFEST file whose bytes are not a whole JSON document (empty or cut short) *)
TruncatedFile == [Snap |-> -1, NextWAL |-> -1]

(* the data directory's two manifest names: tmp and json are the inodes the
   names MANIFEST.tmp and MANIFEST.json point to (0: no such name), bytes the
   content of each inode; the d- fields are what has reached the disk *)
EmptyDir == [tmp |-> 0, json |-> 0, bytes |-> <<>>,
             dtmp |-> 0, djson |-> 0, dbytes |-> <<>>, pc |-> "idle", writes |-> 0]

(* a connection just accepted: nothing sent, nothing read, nothing written; buf: the
   bytes sent and not yet read, pos: the number of bytes read, sent: the requests
   the client sent, out: the replies, eof: the client has closed its side,
   open: the connection is in Server.connections *)
NoWire == [buf |-> <<>>, pos |-> 0, sent |-> <<>>, out |-> <<>>, eof |-> FALSE,
           open |-> TRUE, deadlines |-> 0]

(* ReadManifest: no file is "no manifest yet", bytes that do not parse are an error *)
ReadManifest(dir) ==
    IF dir.json = 0 THEN [err |-> "", manifest |-> NoManifest]
    ELSE IF dir.bytes[dir.json] = TruncatedFile
         THEN [err |-> "unexpected end of JSON input", manifest |-> NoManifest]
         ELSE [err |-> "", manifest |-> dir.bytes[dir.json]]

NewSnapshotManager(snaps) == MaxIndex(DOMAIN snaps) + 1

(* a snapshot that writes every entry of the map, expired or not *)
SnapshotRecordsAll(d, t) ==
    {[Key |-> k, Value |-> d[k].Value, Version |-> d[k].Version,
      ExpiryMs |-> d[k].ExpiryMs] : k \in DOMAIN d}

(* the records SnapshotWriter.WriteEntry writes for the store's entries *)
SnapshotRecords(d, t) ==
    {[Key |-> k, Value |-> d[k].Value, Version |-> d[k].Version,
      ExpiryMs |-> d[k].ExpiryMs] : k \in {x \in DOMAIN d : ~IsExpired(d[x], t)}}

(* SnapshotManager.CreateSnapshot: [err, snaps, manifest, snapIndex].       *)
(* outcome: "ok"; "fail": the snapshot file cannot be written (the temp     *)
(* file is removed); "manifestfail": WriteManifest fails after the rename.  *)
CreateSnapshot(snaps, mf, idx, d, t, currentWAL, outcome) ==
    IF outcome = "fail"
    THEN [err |-> "Snapshot", snaps |-> snaps, manifest |-> mf, snapIndex |-> idx]
    ELSE IF outcome = "manifestfail"
    THEN [err |-> "Manifest", snaps |-> MapPut(snaps, idx, SnapshotRecords(d, t)),
          manifest |-> mf, snapIndex |-> idx]
    ELSE [err |-> "", snaps |-> MapPut(snaps, idx, SnapshotRecords(d, t)),
          manifest |-> [Snap |-> idx, NextWAL |-> currentWAL],
          snapIndex |-> idx + 1]

(* SnapshotManager.LoadSnapshot into an empty store: [err, data, nextWAL] *)
LoadSnapshot(snaps, mf, t) ==
    IF mf = NoManifest THEN [err |-> "", data |-> EmptyMap, nextWAL |-> 0]
    ELSE IF mf.Snap \notin DOMAIN snaps
         THEN [err |-> "OpenSnapshot", data |-> EmptyMap, nextWAL |-> 0]
         ELSE LET recs == {r \in snaps[mf.Snap] :
                              ~IsExpired(NewEntry(r.Value, r.Version, r.ExpiryMs), t)}
              IN  [err |-> "", nextWAL |-> mf.NextWAL,
                   data |-> [k \in {r.Key : r \in recs} |->
                               LET r == CHOOSE x \in recs : x.Key = k
                               IN  NewEntry(r.Value, r.Version, r.ExpiryMs)]]

(* SnapshotManager.CleanupOldFiles: keep only the latest snapshot *)
CleanupOldFiles(snaps) ==
    [i \in {j \in DOMAIN snaps : j = MaxIndex(DOMAIN snaps)} |-> snaps[i]]

---------------------------------------------------------------------------
(* persistent_store.go: recovery *)

(* applySetRecord, applyDelRecord, applyExpireRecord *)
ApplyRecord(d, r) ==
    IF r.Type = RecordTypeSET
    THEN MapPut(d, r.Key, NewEntry(r.Value, r.Version, r.ExpiryMs))
    ELSE IF r.Type = RecordTypeDEL THEN MapDel(d, r.Key)
    ELSE IF r.Type = RecordTypeEXPIRE /\ r.Key \in DOMAIN d
         THEN [d EXCEPT ![r.Key].ExpiryMs = r.ExpiryMs]
         ELSE d

(* a replay that skips a bad record and goes on with the next one *)
RECURSIVE ReplaySkipBad(_, _, _)
ReplaySkipBad(d, seg, i) ==
    IF i > Len(seg) THEN d
    ELSE IF ~seg[i].Valid THEN ReplaySkipBad(d, seg, i + 1)
    ELSE ReplaySkipBad(ApplyRecord(d, seg[i]), seg, i + 1)

(* PersistentStore.replayWAL from position i: stops at EOF or at the first bad record *)
RECURSIVE ReplayWAL(_, _, _)
ReplayWAL(d, seg, i) ==
    LET rr == ReadRecord(seg, i)
    IN  IF rr.err # "" THEN d
        ELSE ReplayWAL(ApplyRecord(d, rr.record), seg, i + 1)

(* the loop of PersistentStore.recover over the segments, in index order *)
RECURSIVE ReplaySegments(_, _, _)
ReplaySegments(d, files, S) ==
    IF S = {} THEN d
    ELSE LET i == MinIndex(S)
         IN  ReplaySegments(ReplayWAL(d, files[i], 1), files, S \ {i})

(* PersistentStore.rebuildExpiryHeap *)
RebuildExpiryHeap(d) ==
    SetToBag({[Key |-> k, ExpiryMs |-> d[k].ExpiryMs] :
                 k \in {x \in DOMAIN d : d[x].ExpiryMs > 0}})

(* PersistentStore.recover: [err, data, heap] *)
Recover(snaps, mf, files, t) ==
    LET ls == LoadSnapshot(snaps, mf, t)
        ws == GetWALsForReplay(files, ls.nextWAL)
    IN  IF ls.err # "" THEN [err |-> ls.err, data |-> EmptyMap, heap |-> EmptyBag]
        ELSE IF ws.err # "" THEN [err |-> ws.err, data |-> EmptyMap, heap |-> EmptyBag]
        ELSE LET d == ReplaySegments(ls.data, files, ws.segs)
             IN  [err |-> "", data |-> d, heap |-> RebuildExpiryHeap(d)]

---------------------------------------------------------------------------
(* server.go: dispatch *)

MutatingNames == {"SET", "DEL", "EXPIRE", "INCR", "DECR", "MSET"}
ReadNames == {"GET", "EXISTS", "TTL"}

isMutatingNoDel(cmd) == cmd \in {"SET", "EXPIRE", "INCR", "DECR", "MSET"}

(* Server.isMutatingCommand *)
isMutatingCommand(cmd) == cmd \in {"SET", "DEL", "EXPIRE", "INCR", "DECR", "MSET"}

(* PersistentStore.IsSnapshotPaused *)
IsSnapshotPaused == snapshotPaused = 1

(* sync.Mutex.Lock returns only when nobody holds the mutex, the caller included *)
(* a mutex that is handed to every caller *)
CanLockAlways(holder, who) == TRUE

CanLock(holder, who) == holder = "free"

Idle == [pc |-> "idle", cmd |-> "", n |-> 0]

(* handleSet: the loop over the option tokens; an unknown token ends it with BADREQ *)
RECURSIVE ParseSetOptions(_, _)
ParseSetOptions(args, opts) ==
    IF args = <<>> THEN [err |-> "", opts |-> opts]
    ELSE LET a == Head(args)
         IN  IF a.opt = "EX"
             THEN ParseSetOptions(Tail(args), [opts EXCEPT !.ExpiryMs = a.val])
             ELSE IF a.opt = "PXAT"
             THEN ParseSetOptions(Tail(args), [opts EXCEPT !.AbsoluteExpiryMs = a.val])
             ELSE IF a.opt = "NX"
             THEN ParseSetOptions(Tail(args), [opts EXCEPT !.NX = TRUE])
             ELSE IF a.opt = "XX"
             THEN ParseSetOptions(Tail(args), [opts EXCEPT !.XX = TRUE])
             ELSE IF a.opt = "VER"
             THEN ParseSetOptions(Tail(args),
                                  [opts EXCEPT !.CheckVersion = TRUE, !.Version = a.val])
             ELSE [err |-> "BADREQ", opts |-> opts]

(* handleSet up to the call of the store: the options parsed, then the check for *)
(* conflicting options                                                          *)
handleSetOptions(args) ==
    LET p == ParseSetOptions(args, PlainOpts)
    IN  IF p.err # "" THEN p
        ELSE IF p.opts.ExpiryMs > 0 /\ p.opts.AbsoluteExpiryMs > 0
             THEN [err |-> "BADREQ", opts |-> p.opts]
             ELSE p

(* the error codes the handlers write for the store's errors *)
handleGetError(err) == IF err = "KeyNotFound" THEN "NOT_FOUND" ELSE "INTERNAL"

handleSetError(err) ==
    IF err = "KeyExists" THEN "EXISTS"
    ELSE IF err = "KeyNotFound" THEN "NEXISTS"
    ELSE IF err = "VersionMismatch" THEN "VER"
    ELSE IF err \in {"KeyTooLarge", "ValueTooLarge"} THEN "TOOLARGE"
    ELSE "INTERNAL"

handleMSetError(err) ==
    IF err \in {"KeyTooLarge", "ValueTooLarge"} THEN "TOOLARGE" ELSE "INTERNAL"

handleExpireError(err) == IF err = "KeyNotFound" THEN "NOT_FOUND" ELSE "INTERNAL"

handleIncrError(err) == IF err = "NotInteger" THEN "TYPE" ELSE "INTERNAL"

Result(c, op, key, status, value, version, expiryMs) ==
    [client |-> c, op |-> op, key |-> key, status |-> status, value |-> value,
     version |-> version, expiryMs |-> expiryMs]

Event(op) == Result("", op, <<>>, "", <<>>, 0, NoExpiry)
NoReply == Event("")

NoAck == [kind |-> "none", Value |-> <<>>, Version |-> 0, ExpiryMs |-> NoExpiry]
ValAck(e) == [kind |-> "val", Value |-> e.Value, Version |-> e.Version, ExpiryMs |-> e.ExpiryMs]
DelAck == [NoAck EXCEPT !.kind = "del"]

Produce(k, version) == [produced EXCEPT ![k] = version]

diskVars == <<walFiles, walIndex, curWAL, walClosed, snapFiles, manifest, snapIndex>>
snapVars == <<snapshotPaused, snapPc, snapCurrentWAL>>
lockVars == <<psMu, storeMu, walMu>>
ghostVars == <<acked, preData, produced, applied, manifestDir, wire>>

---------------------------------------------------------------------------
(* Initial state: a server started on an empty data directory *)

Init ==
    /\ phase = "up"
    /\ now = 2
    /\ data = EmptyMap
    /\ expiryHeap = EmptyBag
    /\ walFiles = NewWALManager(EmptyMap).files
    /\ walIndex = NewWALManager(EmptyMap).walIndex
    /\ curWAL = NewWALManager(EmptyMap).walIndex
    /\ walClosed = FALSE
    /\ snapFiles = EmptyMap
    /\ manifest = NoManifest
    /\ snapIndex = NewSnapshotManager(EmptyMap)
    /\ snapshotPaused = 0
    /\ snapPc = "idle"
    /\ snapCurrentWAL = 0
    /\ psMu = "free"
    /\ storeMu = "free"
    /\ walMu = "free"
    /\ conn = [c \in Clients |-> Idle]
    /\ sweepPc = "idle"
    /\ opCount = 0
    /\ starts = 1
    /\ lastOp = Event("START")
    /\ acked = [k \in Keys |-> NoAck]
    /\ preData = EmptyMap
    /\ produced = [k \in Keys |-> 0]
    /\ applied = <<>>
    /\ manifestDir = EmptyDir
    /\ wire = NoWire

(* the clock advances *)
Tick ==
    /\ lastOp' = NoReply
    /\ now < MaxTime
    /\ now' = now + 1
    /\ UNCHANGED <<phase, data, expiryHeap, diskVars, snapVars, lockVars, conn,
                   sweepPc, opCount, starts, ghostVars>>

---------------------------------------------------------------------------
(* Server.processCommand *)

(* a mutating command that finds the snapshot pause set is answered ERR BUSY *)
Busy(c, name) ==
    /\ phase = "up"
    /\ conn[c].pc = "idle"
    /\ isMutatingCommand(name) /\ IsSnapshotPaused
    /\ lastOp' = Result(c, name, <<>>, "BUSY", <<>>, 0, NoExpiry)
    /\ UNCHANGED <<phase, now, data, expiryHeap, diskVars, snapVars, lockVars,
                   conn, sweepPc, opCount, starts, ghostVars>>

(* a command with a mutating handler passes the gate and is routed to its handler; *)
(* the model routes at most limit of them                                          *)
AdmitUpTo(c, name, limit) ==
    /\ lastOp' = NoReply
    /\ phase = "up"
    /\ name \in MutatingNames
    /\ conn[c].pc = "idle"
    /\ opCount < limit
    /\ ~(isMutatingCommand(name) /\ IsSnapshotPaused)
    /\ conn' = [conn EXCEPT ![c] = [pc |-> "admitted", cmd |-> name,
                                    n |-> IF name = "MSET" THEN MSetPairs ELSE 1]]
    /\ opCount' = opCount + 1
    /\ UNCHANGED <<phase, now, data, expiryHeap, diskVars, snapVars, lockVars,
                   sweepPc, starts, ghostVars>>

Admit(c, name) == AdmitUpTo(c, name, MaxOps)

(* handleGet, handleExists, handleTTL *)
Read(c, name, k) ==
    /\ phase = "up"
    /\ conn[c].pc = "idle"
    /\ ~(isMutatingCommand(name) /\ IsSnapshotPaused)
    /\ CanLock(storeMu, c)
    /\ LET g == StoreGet(data, k, now)
       IN  /\ data' = IF name = "GET" THEN g.data ELSE data
           /\ lastOp' =
                IF name = "GET"
                THEN Result(c, name, k, IF g.err = "" THEN "VALUE" ELSE handleGetError(g.err),
                            g.entry.Value, g.entry.Version, g.entry.ExpiryMs)
                ELSE IF name = "EXISTS"
                THEN Result(c, name, k, IF StoreExists(data, k, now) THEN "EXISTS 1" ELSE "EXISTS 0",
                            <<>>, 0, NoExpiry)
                ELSE Result(c, name, k, "TTL", <<>>, 0, StoreTTL(data, k, now))
    /\ UNCHANGED <<phase, now, expiryHeap, diskVars, snapVars, lockVars, conn,
                   sweepPc, opCount, starts, ghostVars>>

(* the first statement of PersistentStore.Set/Delete/Expire/Incr: ps.mu.Lock() *)
Lock(c) ==
    /\ lastOp' = NoReply
    /\ phase = "up"
    /\ conn[c].pc = "admitted"
    /\ CanLock(psMu, c)
    /\ psMu' = c
    /\ conn' = [conn EXCEPT ![c].pc = "locked"]
    /\ UNCHANGED <<phase, now, data, expiryHeap, diskVars, snapVars, storeMu,
                   walMu, sweepPc, opCount, starts, ghostVars>>

---------------------------------------------------------------------------
(* persistent_store.go: Set, Delete, Expire, Incr.  Each yields              *)
(* [status, version, data, heap, wal, flag]: flag "done" when the call       *)
(* returns, "panic" when it dereferences a nil entry, "blocked" when it      *)
(* waits for the WAL manager's mutex with the in-memory change already made. *)

Outcomes == {"ok", "fail", "syncfail"}
Skews == {0, 1}

SameWAL == [files |-> walFiles, cur |-> curWAL, idx |-> walIndex]

Res(status, version, value, d, h, w, flag) ==
    [status |-> status, version |-> version, value |-> value, data |-> d, heap |-> h,
     wal |-> [files |-> w.files, cur |-> w.cur, idx |-> w.idx], flag |-> flag]

(* PersistentStore.Set; Store.Set reads the clock at now, the Store.Get after it at now + skew *)
PSSet(c, key, value, opts, skew, outcome) ==
    LET r   == StoreSet(data, expiryHeap, key, value, opts, now)
        g   == StoreGet(r.data, key, now + skew)
        rec == WALRecord(RecordTypeSET, key, value, g.entry.ExpiryMs, r.version)
        a   == AppendRecord(walFiles, curWAL, walIndex, walClosed, rec, outcome)
    IN  IF r.err # ""
        THEN Res(IF conn[c].cmd = "MSET" THEN handleMSetError(r.err) ELSE handleSetError(r.err),
                 0, <<>>, data, expiryHeap, SameWAL, "done")
        ELSE IF g.err # "" THEN Res("PANIC", 0, <<>>, g.data, r.heap, SameWAL, "panic")
        ELSE IF ~CanLock(walMu, c) THEN Res("", r.version, <<>>, g.data, r.heap, SameWAL, "blocked")
        ELSE IF a.err # ""
             THEN Res("INTERNAL", 0, <<>>, StoreDelete(g.data, key, now + skew).data, r.heap, a, "done")
             ELSE Res("OK", r.version, value, g.data, r.heap, a, "done")

(* PersistentStore.Delete: a failed append is logged and the delete is still reported *)
PSDelete(c, key, outcome) ==
    LET g   == StoreGet(data, key, now)
        del == StoreDelete(g.data, key, now)
        rec == WALRecord(RecordTypeDEL, key, <<>>, NoExpiry, g.entry.Version)
        a   == AppendRecord(walFiles, curWAL, walIndex, walClosed, rec, outcome)
    IN  IF g.err # "" THEN Res("DELETED 0", 0, <<>>, g.data, expiryHeap, SameWAL, "done")
        ELSE IF ~del.deleted THEN Res("DELETED 0", 0, <<>>, del.data, expiryHeap, SameWAL, "done")
        ELSE IF ~CanLock(walMu, c)
             THEN Res("", g.entry.Version, <<>>, del.data, expiryHeap, SameWAL, "blocked")
             ELSE Res("DELETED 1", g.entry.Version, <<>>, del.data, expiryHeap, a, "done")

(* PersistentStore.Expire: Store.Expire reads the clock at now, the record's expiry is *)
(* computed from a second reading at now + skew                                       *)
PSExpire(c, key, ttlMs, skew, outcome) ==
    LET g   == StoreGet(data, key, now)
        e   == StoreExpire(g.data, expiryHeap, key, ttlMs, now)
        rec == WALRecord(RecordTypeEXPIRE, key, <<>>, now + skew + ttlMs, g.entry.Version)
        a   == AppendRecord(walFiles, curWAL, walIndex, walClosed, rec, outcome)
    IN  IF g.err # ""
        THEN Res(handleExpireError(g.err), 0, <<>>, g.data, expiryHeap, SameWAL, "done")
        ELSE IF e.err # ""
        THEN Res(handleExpireError(e.err), 0, <<>>, e.data, e.heap, SameWAL, "done")
        ELSE IF ~CanLock(walMu, c)
             THEN Res("", g.entry.Version, <<>>, e.data, e.heap, SameWAL, "blocked")
        ELSE IF a.err # ""
             THEN Res("INTERNAL", 0, <<>>, [e.data EXCEPT ![key].ExpiryMs = NoExpiry], e.heap, a, "done")
             ELSE Res("OK", g.entry.Version, <<>>, e.data, e.heap, a, "done")

(* PersistentStore.Incr: logged as a SET record of the new entry *)
PSIncr(c, key, delta, outcome) ==
    LET r   == StoreIncr(data, key, delta, now)
        g   == StoreGet(r.data, key, now)
        rec == WALRecord(RecordTypeSET, key, g.entry.Value, g.entry.ExpiryMs, g.entry.Version)
        a   == AppendRecord(walFiles, curWAL, walIndex, walClosed, rec, outcome)
    IN  IF r.err # ""
        THEN Res(handleIncrError(r.err), 0, <<>>, data, expiryHeap, SameWAL, "done")
        ELSE IF g.err # "" THEN Res("PANIC", 0, <<>>, g.data, expiryHeap, SameWAL, "panic")
        ELSE IF ~CanLock(walMu, c)
             THEN Res("", g.entry.Version, <<>>, g.data, expiryHeap, SameWAL, "blocked")
        ELSE IF a.err # ""
             THEN Res("INTERNAL", 0, <<>>, StoreDelete(g.data, key, now).data, expiryHeap, a, "done")
             ELSE Res("OK", g.entry.Version, FormatInt(r.newVal), g.data, expiryHeap, a, "done")

(* the process is gone: memory, locks, connections and background workers with it *)
ProcessExit(how) ==
    /\ phase' = how
    /\ data' = EmptyMap
    /\ expiryHeap' = EmptyBag
    /\ snapshotPaused' = 0
    /\ snapPc' = "idle"
    /\ snapCurrentWAL' = 0
    /\ psMu' = "free"
    /\ storeMu' = "free"
    /\ walMu' = "free"
    /\ conn' = [c \in DOMAIN conn |-> Idle]
    /\ sweepPc' = "idle"

(* what an acknowledged mutation leaves behind in the history variables *)
Acknowledge(k, res) ==
    IF res.status = "OK"
    THEN [acked EXCEPT ![k] = ValAck(res.data[k])]
    ELSE IF res.status = "DELETED 1" THEN [acked EXCEPT ![k] = DelAck]
    ELSE IF res.status = "INTERNAL" THEN [acked EXCEPT ![k] = NoAck]
    ELSE acked

(* the handler's call into the persistent store takes effect and the reply is written *)
Complete(c, k, res, t) ==
    /\ now' = t
    /\ walFiles' = res.wal.files
    /\ curWAL' = res.wal.cur
    /\ walIndex' = res.wal.idx
    /\ UNCHANGED <<walClosed, snapFiles, manifest, snapIndex, opCount, starts, applied, manifestDir, wire>>
    /\ IF res.flag = "panic"
       THEN /\ ProcessExit("crashed")
            /\ lastOp' = Result(c, conn[c].cmd, k, res.status, <<>>, 0, NoExpiry)
            /\ preData' = res.data
            /\ UNCHANGED <<acked, produced>>
       ELSE /\ data' = res.data
            /\ expiryHeap' = res.heap
            /\ UNCHANGED <<phase, snapVars, storeMu, walMu, sweepPc, preData>>
            /\ IF res.flag = "blocked"
               THEN /\ conn' = [conn EXCEPT ![c].pc = "blocked"]
                    /\ lastOp' = NoReply
                    /\ UNCHANGED <<psMu, acked, produced>>
               ELSE /\ psMu' = "free"
                    /\ conn' = [conn EXCEPT ![c] =
                                  IF res.status = "OK" /\ conn[c].n > 1
                                  THEN [pc |-> "admitted", cmd |-> conn[c].cmd, n |-> conn[c].n - 1]
                                  ELSE Idle]
                    /\ lastOp' = Result(c, conn[c].cmd, k, res.status, res.value,
                                        res.version,
                                        IF k \in DOMAIN res.data THEN res.data[k].ExpiryMs ELSE NoExpiry)
                    /\ acked' = Acknowledge(k, res)
                    /\ produced' = IF res.status = "OK" /\ conn[c].cmd # "EXPIRE"
                                   THEN Produce(k, res.version)
                                   ELSE produced

Live(k) == k \in DOMAIN data /\ ~IsExpired(data[k], now)

(* handleSet, and one pair of handleMSet *)
ExecSet(c, k, v, opts, skew, outcome) ==
    /\ phase = "up"
    /\ conn[c].pc = "locked"
    /\ conn[c].cmd \in {"SET", "MSET"}
    /\ conn[c].cmd = "MSET" => opts = PlainOpts
    /\ now + skew <= MaxTime
    /\ CanLock(storeMu, c)
    /\ Complete(c, k, PSSet(c, k, v, opts, skew, outcome), now + skew)

(* handleSet for a command line with the option tokens args, once the store's lock *)
(* is held                                                                         *)
ExecSetLine(c, k, v, args, skew, outcome) ==
    /\ handleSetOptions(args).err = ""
    /\ ExecSet(c, k, v, handleSetOptions(args).opts, skew, outcome)

(* handleSet returns ERR BADREQ for an unknown option or for conflicting options, *)
(* before it calls the store                                                      *)
SetBadReq(c, k, args) ==
    /\ phase = "up"
    /\ conn[c].pc = "admitted"
    /\ conn[c].cmd = "SET"
    /\ handleSetOptions(args).err # ""
    /\ conn' = [conn EXCEPT ![c] = Idle]
    /\ lastOp' = Result(c, "SET", k, handleSetOptions(args).err, <<>>, 0, NoExpiry)
    /\ UNCHANGED <<phase, now, data, expiryHeap, diskVars, snapVars, lockVars,
                   sweepPc, opCount, starts, ghostVars>>

(* handleDel *)
ExecDel(c, k, outcome) ==
    /\ phase = "up"
    /\ conn[c].pc = "locked"
    /\ conn[c].cmd = "DEL"
    /\ CanLock(storeMu, c)
    /\ Complete(c, k, PSDelete(c, k, outcome), now)

(* handleExpire *)
ExecExpire(c, k, ttlMs, skew, outcome) ==
    /\ phase = "up"
    /\ conn[c].pc = "locked"
    /\ conn[c].cmd = "EXPIRE"
    /\ now + skew <= MaxTime
    /\ CanLock(storeMu, c)
    /\ Complete(c, k, PSExpire(c, k, ttlMs, skew, outcome), now + skew)

(* handleIncr with sign 1 (INCR) or -1 (DECR) *)
ExecIncr(c, k, delta, outcome) ==
    /\ phase = "up"
    /\ conn[c].pc = "locked"
    /\ conn[c].cmd \in {"INCR", "DECR"}
    /\ CanLock(storeMu, c)
    /\ Complete(c, k, PSIncr(c, k, IF conn[c].cmd = "INCR" THEN delta ELSE -delta, outcome),
                now)

---------------------------------------------------------------------------
(* persistent_store.go: sweepExpired *)

(* the loop of sweepExpired from iteration i; canLog: ps.mu and the WAL manager's mutex *)
(* can be taken.  [data, heap, recs, blocked, i]; i: the iteration the loop is in       *)
RECURSIVE SweepLoop(_, _, _, _, _)
SweepLoop(d, h, recs, i, canLog) ==
    IF i >= SweepBatch \/ h = EmptyBag
    THEN [data |-> d, heap |-> h, recs |-> recs, blocked |-> FALSE, i |-> i]
    ELSE LET top == CHOOSE x \in BagToSet(h) : \A y \in BagToSet(h) : x.ExpiryMs <= y.ExpiryMs
             h1  == h (-) SetToBag({top})
         IN  IF top.ExpiryMs > now
             THEN [data |-> d, heap |-> h, recs |-> recs, blocked |-> FALSE, i |-> i]
             ELSE IF top.Key \notin DOMAIN d THEN SweepLoop(d, h1, recs, i + 1, canLog)
             ELSE IF IsExpired(d[top.Key], now)
                  THEN IF canLog
                       THEN SweepLoop(MapDel(d, top.Key), h1,
                                      Append(recs, WALRecord(RecordTypeDEL, top.Key, <<>>,
                                                             NoExpiry, d[top.Key].Version)),
                                      i + 1, canLog)
                       ELSE [data |-> MapDel(d, top.Key), heap |-> h1, recs |-> recs,
                             blocked |-> TRUE, i |-> i]
             ELSE IF d[top.Key].ExpiryMs > 0
                  THEN SweepLoop(d, HeapPush(h1, top.Key, d[top.Key].ExpiryMs), recs, i + 1, canLog)
                  ELSE SweepLoop(d, h1, recs, i + 1, canLog)

(* the sweeper's AppendRecord calls, one per deleted key; an error is only logged *)
RECURSIVE AppendAll(_, _, _)
AppendAll(w, recs, outcome) ==
    IF recs = <<>> THEN w
    ELSE LET a == AppendRecord(w.files, w.cur, w.idx, walClosed, Head(recs), outcome)
         IN  AppendAll([files |-> a.files, cur |-> a.cur, idx |-> a.idx], Tail(recs), outcome)

(* one run of sweepExpired under Store.mu *)
Sweep(outcome) ==
    /\ lastOp' = Event("SWEEP")
    /\ phase = "up"
    /\ sweepPc = "idle"
    /\ expiryHeap # EmptyBag
    /\ CanLock(storeMu, "sweeper")
    /\ LET sw == SweepLoop(data, expiryHeap, <<>>, 0,
                           CanLock(psMu, "sweeper") /\ CanLock(walMu, "sweeper"))
           w  == AppendAll(SameWAL, sw.recs, outcome)
       IN  /\ data' = sw.data
           /\ expiryHeap' = sw.heap
           /\ walFiles' = w.files
           /\ curWAL' = w.cur
           /\ walIndex' = w.idx
           /\ IF sw.blocked
              THEN /\ sweepPc' = "blocked"
                   /\ storeMu' = "sweeper"
                   /\ psMu' = IF CanLock(psMu, "sweeper") THEN "sweeper" ELSE psMu
              ELSE UNCHANGED <<sweepPc, storeMu, psMu>>
    /\ UNCHANGED <<phase, now, walClosed, snapFiles, manifest, snapIndex, snapVars,
                   walMu, conn, opCount, starts, ghostVars>>

---------------------------------------------------------------------------
(* persistent_store.go: snapshotWorker, maybeSnapshot, createSnapshot *)

SnapOutcomes == {"ok", "fail", "manifestfail"}

(* createSnapshot starts: the pause flag is set and the current WAL name is read *)
SnapBegin ==
    /\ lastOp' = NoReply
    /\ phase = "up"
    /\ snapPc = "idle"
    /\ Cardinality(DOMAIN snapFiles) < MaxSnaps
    /\ CanLock(walMu, "snapshot")
    /\ snapshotPaused' = 1
    /\ snapCurrentWAL' = curWAL
    /\ snapPc' = "paused"
    /\ UNCHANGED <<phase, now, data, expiryHeap, diskVars, lockVars, conn, sweepPc,
                   opCount, starts, ghostVars>>

(* the rest of createSnapshot.  SnapshotManager.CreateSnapshot runs under the store's *)
(* read lock; an error ends the cycle.  Then the WAL manager's mutex is taken, the    *)
(* WAL is rotated, GetCurrentWALName takes the same mutex again, and the old files    *)
(* are removed.  Every return runs the deferred store that clears the pause flag.     *)
SnapRun(outcome, rotation) ==
    /\ lastOp' = NoReply
    /\ phase = "up"
    /\ snapPc = "paused"
    /\ CanLock(storeMu, "snapshot")
    /\ CanLock(walMu, "snapshot")
    /\ UNCHANGED <<phase, now, data, expiryHeap, snapCurrentWAL, psMu, storeMu, conn,
                   sweepPc, opCount, starts, ghostVars>>
    /\ LET r == CreateSnapshot(snapFiles, manifest, snapIndex, data, now, snapCurrentWAL, outcome)
           w == RotateWAL(walFiles, walIndex)
       IN  /\ manifest' = r.manifest
           /\ snapIndex' = r.snapIndex
           /\ IF r.err # ""
              THEN /\ snapFiles' = r.snaps
                   /\ snapshotPaused' = 0
                   /\ snapPc' = "idle"
                   /\ UNCHANGED <<walFiles, walIndex, curWAL, walClosed, walMu>>
              ELSE IF rotation = "fail" \/ walClosed
              THEN /\ snapFiles' = r.snaps
                   /\ walIndex' = IF walClosed THEN walIndex ELSE walIndex + 1
                   /\ walClosed' = TRUE
                   /\ snapshotPaused' = 0
                   /\ snapPc' = "idle"
                   /\ UNCHANGED <<walFiles, curWAL, walMu>>
              ELSE /\ curWAL' = w.cur
                   /\ walIndex' = w.idx
                   /\ walClosed' = FALSE
                   /\ IF CanLock("snapshot", "snapshot")
                      THEN /\ snapFiles' = CleanupOldFiles(r.snaps)
                           /\ walFiles' = DeleteOldWALs(w.files, snapCurrentWAL)
                           /\ walMu' = "free"
                           /\ snapshotPaused' = 0
                           /\ snapPc' = "idle"
                      ELSE /\ snapFiles' = r.snaps
                           /\ walFiles' = w.files
                           /\ walMu' = "snapshot"
                           /\ snapPc' = "blocked"
                           /\ UNCHANGED snapshotPaused

---------------------------------------------------------------------------
(* process lifecycle *)

(* the process is killed; a record being appended may be left half written *)
Kill(torn) ==
    /\ phase = "up"
    /\ starts < MaxStarts
    /\ torn => /\ \E c \in DOMAIN conn : conn[c].pc = "locked"
               /\ ~walClosed
               /\ ~WALIsFull(walFiles[curWAL])
    /\ ProcessExit("crashed")
    /\ walFiles' = IF torn THEN [walFiles EXCEPT ![curWAL] = Append(@, BadRecord)] ELSE walFiles
    /\ preData' = data
    /\ lastOp' = Event("KILL")
    /\ UNCHANGED <<now, walIndex, curWAL, walClosed, snapFiles, manifest, snapIndex,
                   opCount, starts, acked, produced, applied, manifestDir, wire>>

(* Server.Shutdown and PersistentStore.Close: the handlers and the background workers *)
(* have returned and the WAL is closed                                                *)
Shutdown ==
    /\ phase = "up"
    /\ starts < MaxStarts
    /\ \A c \in DOMAIN conn : conn[c].pc = "idle"
    /\ sweepPc = "idle"
    /\ snapPc = "idle"
    /\ CanLock(walMu, "close")
    /\ ProcessExit("stopped")
    /\ preData' = data
    /\ lastOp' = Event("SHUTDOWN")
    /\ UNCHANGED <<now, diskVars, opCount, starts, acked, produced, applied, manifestDir, wire>>

(* NewPersistentStore: NewWALManager, NewSnapshotManager, recover *)
Start ==
    /\ phase # "up"
    /\ starts < MaxStarts
    /\ starts' = starts + 1
    /\ LET wm == NewWALManager(walFiles)
           rc == Recover(snapFiles, manifest, wm.files, now)
       IN  /\ walFiles' = wm.files
           /\ IF rc.err # ""
              THEN /\ lastOp' = [Event("STARTFAIL") EXCEPT !.status = phase]
                   /\ UNCHANGED <<phase, data, expiryHeap, walIndex, curWAL, walClosed,
                                  snapIndex>>
              ELSE /\ phase' = "up"
                   /\ data' = rc.data
                   /\ expiryHeap' = rc.heap
                   /\ walIndex' = wm.walIndex
                   /\ curWAL' = wm.walIndex
                   /\ walClosed' = FALSE
                   /\ snapIndex' = NewSnapshotManager(snapFiles)
                   /\ lastOp' = [Event("START") EXCEPT !.status = phase]
    /\ preData' = EmptyMap
    /\ UNCHANGED <<now, snapFiles, manifest, snapVars, lockVars, conn, sweepPc, opCount,
                   acked, produced, applied, manifestDir, wire>>

(* while the process is down, a record of a WAL segment is damaged on disk *)
Damage(i, j) ==
    /\ lastOp' = NoReply
    /\ phase # "up"
    /\ i \in DOMAIN walFiles
    /\ j \in 1..Len(walFiles[i])
    /\ walFiles[i][j].Valid
    /\ walFiles' = [walFiles EXCEPT ![i][j] = BadRecord]
    /\ UNCHANGED <<phase, now, data, expiryHeap, walIndex, curWAL, walClosed, snapFiles,
                   manifest, snapIndex, snapVars, lockVars, conn, sweepPc, opCount,
                   starts, ghostVars>>

---------------------------------------------------------------------------

Next ==
    \/ Tick
    \/ \E c \in Clients, name \in MutatingNames \cup ReadNames : Busy(c, name)
    \/ \E c \in Clients, name \in MutatingNames : Admit(c, name)
    \/ \E c \in Clients, name \in ReadNames, k \in Keys : Read(c, name, k)
    \/ \E c \in Clients : Lock(c)
    \/ \E c \in Clients, k \in Keys, v \in Values, args \in SetArgLists,
          skew \in Skews, outcome \in Outcomes : ExecSetLine(c, k, v, args, skew, outcome)
    \/ \E c \in Clients, k \in Keys, outcome \in Outcomes : ExecDel(c, k, outcome)
    \/ \E c \in Clients, k \in Keys, ttlMs \in TTLs, skew \in Skews, outcome \in Outcomes :
          ExecExpire(c, k, ttlMs, skew, outcome)
    \/ \E c \in Clients, k \in Keys, delta \in Deltas, outcome \in Outcomes :
          ExecIncr(c, k, delta, outcome)
    \/ \E outcome \in {"ok", "fail"} : Sweep(outcome)
    \/ SnapBegin
    \/ \E outcome \in SnapOutcomes, rotation \in {"ok", "fail"} : SnapRun(outcome, rotation)
    \/ \E torn \in BOOLEAN : Kill(torn)
    \/ Shutdown
    \/ Start

Spec == Init /\ [][Next]_vars

(* the same program on a disk that can damage WAL records while the process is down *)
NextDamage ==
    \/ Next
    \/ \E i \in DOMAIN walFiles, j \in 1..WalMaxRecords : Damage(i, j)

SpecDamage == Init /\ [][NextDamage]_vars

(* a server started by NewPersistentStore on a data directory with the WAL segments *)
(* files, serving the connections clients                                          *)
InitOn(clients, keys, files) ==
    LET wm == NewWALManager(files)
        rc == Recover(EmptyMap, NoManifest, wm.files, 2)
    IN  /\ phase = "up"
        /\ now = 2
        /\ data = rc.data
        /\ expiryHeap = rc.heap
        /\ walFiles = wm.files
        /\ walIndex = wm.walIndex
        /\ curWAL = wm.walIndex
        /\ walClosed = FALSE
        /\ snapFiles = EmptyMap
        /\ manifest = NoManifest
        /\ snapIndex = NewSnapshotManager(EmptyMap)
        /\ snapshotPaused = 0
        /\ snapPc = "idle"
        /\ snapCurrentWAL = 0
        /\ psMu = "free"
        /\ storeMu = "free"
        /\ walMu = "free"
        /\ conn = [c \in clients |-> Idle]
        /\ sweepPc = "idle"
        /\ opCount = 0
        /\ starts = 1
        /\ lastOp = Event("START")
        /\ acked = [k \in keys |-> NoAck]
        /\ preData = EmptyMap
        /\ produced = [k \in keys |-> 0]
        /\ applied = <<>>
        /\ manifestDir = EmptyDir
        /\ wire = NoWire

(* one connection sending commands, with keys that fail validation and with every *)
(* SET command line of CmdArgLists, to a server whose background workers are idle *)
NextCmd ==
    \/ Tick
    \/ \E c \in Clients, name \in MutatingNames : AdmitUpTo(c, name, MaxCmdOps)
    \/ \E c \in Clients, name \in ReadNames, k \in CmdKeys : Read(c, name, k)
    \/ \E c \in Clients : Lock(c)
    \/ \E c \in Clients, k \in CmdKeys, args \in CmdArgLists : SetBadReq(c, k, args)
    \/ \E c \in Clients, k \in CmdKeys, v \in Values, args \in CmdArgLists,
          skew \in Skews, outcome \in Outcomes : ExecSetLine(c, k, v, args, skew, outcome)
    \/ \E c \in Clients, k \in CmdKeys, outcome \in Outcomes : ExecDel(c, k, outcome)
    \/ \E c \in Clients, k \in CmdKeys, ttlMs \in TTLs, skew \in Skews, outcome \in Outcomes :
          ExecExpire(c, k, ttlMs, skew, outcome)
    \/ \E c \in Clients, k \in CmdKeys, delta \in Deltas, outcome \in Outcomes :
          ExecIncr(c, k, delta, outcome)

SpecCmd == InitOn(Clients, CmdKeys, EmptyMap) /\ [][NextCmd]_vars

(* two connections that each send version-guarded SETs of K1 to a server started on *)
(* the data directory a "SET k a" (answered OK 1) has left; no WAL faults           *)
CASClients == {"c1", "c2"}

CASArgLists ==
    { <<Opt("VER", 1)>>,
      <<Opt("VER", 1), Opt("EX", 1)>> }

CASFiles == [i \in {1} |-> <<WALRecord(RecordTypeSET, K1, ValA, NoExpiry, 1)>>]

NextCAS ==
    \/ Tick
    \/ \E c \in CASClients : Admit(c, "SET")
    \/ \E c \in CASClients, name \in ReadNames : Read(c, name, K1)
    \/ \E c \in CASClients : Lock(c)
    \/ \E c \in CASClients, v \in Values, args \in CASArgLists, skew \in Skews :
          ExecSetLine(c, K1, v, args, skew, "ok")

SpecCAS == InitOn(CASClients, Keys, CASFiles) /\ [][NextCAS]_vars

---------------------------------------------------------------------------
(* persistent_store.go step by step: a mutation changes Store.data under Store.mu *)
(* and appends its WAL record afterwards, the handlers with ps.mu held from their *)
(* first statement, the sweeper with Store.mu held and ps.mu taken for the append *)

Change(rec, by, i) == [rec |-> rec, by |-> by, logged |-> FALSE, i |-> i]

(* the change of thread who that waits for its AppendRecord *)
PendingOf(who) == CHOOSE j \in 1..Len(applied) : applied[j].by = who /\ ~applied[j].logged

(* the record a call into the persistent store has built for AppendRecord *)
BuiltRecord(res) == res.wal.files[res.wal.cur][Len(res.wal.files[res.wal.cur])]

(* the handler's call into the persistent store up to its AppendRecord: Store.data *)
(* is changed and the record is built                                              *)
Apply(c, k, res, t) ==
    /\ lastOp' = NoReply
    /\ phase = "up"
    /\ conn[c].pc = "locked"
    /\ CanLock(storeMu, c)
    /\ t <= MaxTime
    /\ res.flag = "done"
    /\ res.status \in {"OK", "DELETED 1"}
    /\ now' = t
    /\ data' = res.data
    /\ expiryHeap' = res.heap
    /\ conn' = [conn EXCEPT ![c].pc = "applied"]
    /\ applied' = Append(applied, Change(BuiltRecord(res), c, 0))
    /\ UNCHANGED <<phase, diskVars, snapVars, lockVars, sweepPc, opCount, starts,
                   acked, preData, produced, manifestDir, wire>>

ApplySet(c, k, v, args, skew) ==
    /\ conn[c].cmd = "SET"
    /\ handleSetOptions(args).err = ""
    /\ Apply(c, k, PSSet(c, k, v, handleSetOptions(args).opts, skew, "ok"), now + skew)

ApplyDel(c, k) ==
    /\ conn[c].cmd = "DEL"
    /\ Apply(c, k, PSDelete(c, k, "ok"), now)

ApplyExpire(c, k, ttlMs, skew) ==
    /\ conn[c].cmd = "EXPIRE"
    /\ Apply(c, k, PSExpire(c, k, ttlMs, skew, "ok"), now + skew)

ApplyIncr(c, k, delta) ==
    /\ conn[c].cmd \in {"INCR", "DECR"}
    /\ Apply(c, k, PSIncr(c, k, IF conn[c].cmd = "INCR" THEN delta ELSE -delta, "ok"), now)

(* AppendRecord returns, the deferred ps.mu.Unlock runs and the reply is written *)
Log(c) ==
    /\ phase = "up"
    /\ conn[c].pc = "applied"
    /\ CanLock(walMu, c)
    /\ LET j   == PendingOf(c)
           rec == applied[j].rec
           a   == AppendRecord(walFiles, curWAL, walIndex, walClosed, rec, "ok")
       IN  /\ walFiles' = a.files
           /\ curWAL' = a.cur
           /\ walIndex' = a.idx
           /\ applied' = [applied EXCEPT ![j].logged = TRUE]
           /\ lastOp' = Result(c, conn[c].cmd, rec.Key,
                               IF conn[c].cmd = "DEL" THEN "DELETED 1" ELSE "OK",
                               rec.Value, rec.Version,
                               IF rec.Key \in DOMAIN data THEN data[rec.Key].ExpiryMs
                               ELSE NoExpiry)
    /\ psMu' = "free"
    /\ conn' = [conn EXCEPT ![c] = Idle]
    /\ UNCHANGED <<phase, now, data, expiryHeap, walClosed, snapFiles, manifest, snapIndex,
                   snapVars, storeMu, walMu, sweepPc, opCount, starts, acked, preData,
                   produced, manifestDir, wire>>

(* the call returns without a change to log: the reply is an error or DELETED 0 *)
Unchanged(c) == lastOp'.client = c /\ lastOp'.status \notin {"OK", "DELETED 1"}

(* sweepExpired runs its loop from iteration i up to its next deletion, where it  *)
(* is at ps.mu.Lock() with the record to append, or up to the end of the loop,    *)
(* where the deferred Store.mu.Unlock runs; log: the changes made so far          *)
SweepOn(i, log) ==
    LET sw == SweepLoop(data, expiryHeap, <<>>, i, FALSE)
    IN  /\ data' = sw.data
        /\ expiryHeap' = sw.heap
        /\ IF sw.blocked
           THEN /\ sweepPc' = "blocked"
                /\ storeMu' = "sweeper"
                /\ applied' = Append(log, Change(Head(SweepLoop(data, expiryHeap, <<>>, i, TRUE).recs),
                                                 "sweeper", sw.i))
           ELSE /\ sweepPc' = "idle"
                /\ storeMu' = "free"
                /\ applied' = log

(* sweepExpired takes Store.mu and starts its loop *)
SweepBegin ==
    /\ lastOp' = Event("SWEEP")
    /\ phase = "up"
    /\ sweepPc = "idle"
    /\ expiryHeap # EmptyBag
    /\ CanLock(storeMu, "sweeper")
    /\ SweepOn(0, applied)
    /\ UNCHANGED <<phase, now, diskVars, snapVars, psMu, walMu, conn, opCount, starts,
                   acked, preData, produced, manifestDir, wire>>

(* sweepExpired gets ps.mu, appends the record of its deletion, releases ps.mu and *)
(* goes on with the loop                                                           *)
SweepLog ==
    /\ lastOp' = Event("SWEEP")
    /\ phase = "up"
    /\ sweepPc = "blocked"
    /\ storeMu = "sweeper"
    /\ CanLock(psMu, "sweeper")
    /\ CanLock(walMu, "sweeper")
    /\ LET j == PendingOf("sweeper")
           a == AppendRecord(walFiles, curWAL, walIndex, walClosed, applied[j].rec, "ok")
       IN  /\ walFiles' = a.files
           /\ curWAL' = a.cur
           /\ walIndex' = a.idx
           /\ SweepOn(applied[j].i + 1, [applied EXCEPT ![j].logged = TRUE])
    /\ UNCHANGED <<phase, now, walClosed, snapFiles, manifest, snapIndex, snapVars, psMu,
                   walMu, conn, opCount, starts, acked, preData, produced,
                   manifestDir, wire>>

OrderNames == {"SET", "DEL", "EXPIRE", "INCR"}

(* two connections and the sweeper, on a server without WAL faults *)
NextOrder ==
    \/ Tick
    \/ \E c \in CASClients, name \in OrderNames : Admit(c, name)
    \/ \E c \in CASClients, name \in ReadNames, k \in Keys : Read(c, name, k)
    \/ \E c \in CASClients : Lock(c)
    \/ \E c \in CASClients, k \in Keys, v \in Values, args \in SetArgLists, skew \in Skews :
          \/ ApplySet(c, k, v, args, skew)
          \/ ExecSetLine(c, k, v, args, skew, "ok") /\ Unchanged(c)
    \/ \E c \in CASClients, k \in Keys :
          \/ ApplyDel(c, k)
          \/ ExecDel(c, k, "ok") /\ Unchanged(c)
    \/ \E c \in CASClients, k \in Keys, ttlMs \in TTLs, skew \in Skews :
          \/ ApplyExpire(c, k, ttlMs, skew)
          \/ ExecExpire(c, k, ttlMs, skew, "ok") /\ Unchanged(c)
    \/ \E c \in CASClients, k \in Keys, delta \in Deltas : ApplyIncr(c, k, delta)
    \/ \E c \in CASClients : Log(c)
    \/ SweepBegin
    \/ SweepLog

SpecOrder == InitOn(CASClients, Keys, EmptyMap) /\ [][NextOrder]_vars

---------------------------------------------------------------------------
(* snapshot.go system call by system call: WriteManifest and ReadManifest on a
   directory whose names and file contents reach the disk when a sync asks for
   it or when the kernel writes them back *)

MaxManifestWrites == 2

manifestFrame == <<now, data, expiryHeap, walFiles, walIndex, curWAL, walClosed,
                   snapFiles, snapIndex, snapVars, lockVars, conn, sweepPc,
                   opCount, starts, acked, preData, produced, applied, wire>>

JsonFile(dir) == IF dir.json = 0 THEN NoManifest ELSE dir.bytes[dir.json]

(* os.WriteFile opens MANIFEST.tmp with O_CREATE|O_TRUNC: a new empty file, or
   the emptied file a crashed write left behind *)
WriteManifestOpen ==
    /\ phase = "up"
    /\ manifestDir.pc = "idle"
    /\ manifestDir.writes < MaxManifestWrites
    /\ manifestDir' =
         IF manifestDir.tmp = 0
         THEN [manifestDir EXCEPT !.tmp = Len(manifestDir.bytes) + 1,
                                  !.bytes = Append(@, TruncatedFile),
                                  !.dbytes = Append(@, TruncatedFile),
                                  !.pc = "opened", !.writes = @ + 1]
         ELSE [manifestDir EXCEPT !.bytes[manifestDir.tmp] = TruncatedFile,
                                  !.pc = "opened", !.writes = @ + 1]
    /\ lastOp' = NoReply
    /\ UNCHANGED <<phase, manifest, manifestFrame>>

(* os.WriteFile writes the JSON document and closes the file, without a sync *)
WriteManifestData ==
    /\ phase = "up"
    /\ manifestDir.pc = "opened"
    /\ manifestDir' = [manifestDir EXCEPT
            !.bytes[manifestDir.tmp] = [Snap |-> manifestDir.writes, NextWAL |-> curWAL],
            !.pc = "written"]
    /\ lastOp' = NoReply
    /\ UNCHANGED <<phase, manifest, manifestFrame>>

(* dir.Sync(): the directory's names reach the disk, file contents do not *)
WriteManifestSyncDir ==
    /\ phase = "up"
    /\ manifestDir.pc = "written"
    /\ manifestDir' = [manifestDir EXCEPT !.dtmp = manifestDir.tmp,
                                           !.djson = manifestDir.json,
                                           !.pc = "synced"]
    /\ lastOp' = NoReply
    /\ UNCHANGED <<phase, manifest, manifestFrame>>

(* os.Rename(MANIFEST.tmp, MANIFEST.json), the last step of WriteManifest *)
WriteManifestRename ==
    /\ phase = "up"
    /\ manifestDir.pc = "synced"
    /\ manifestDir' = [manifestDir EXCEPT !.json = manifestDir.tmp, !.tmp = 0,
                                           !.pc = "idle"]
    /\ manifest' = JsonFile(manifestDir')
    /\ lastOp' = Event("MANIFEST")
    /\ UNCHANGED <<phase, manifestFrame>>

(* the kernel writes the content of file i back to the disk *)
Writeback(i) ==
    /\ i \in DOMAIN manifestDir.bytes
    /\ manifestDir.dbytes[i] # manifestDir.bytes[i]
    /\ manifestDir' = [manifestDir EXCEPT !.dbytes[i] = manifestDir.bytes[i]]
    /\ lastOp' = NoReply
    /\ UNCHANGED <<phase, manifest, manifestFrame>>

(* the kernel commits the directory's names to the disk *)
CommitDir ==
    /\ <<manifestDir.dtmp, manifestDir.djson>> # <<manifestDir.tmp, manifestDir.json>>
    /\ manifestDir' = [manifestDir EXCEPT !.dtmp = manifestDir.tmp,
                                           !.djson = manifestDir.json]
    /\ lastOp' = NoReply
    /\ UNCHANGED <<phase, manifest, manifestFrame>>

(* the process dies at any step: the kernel keeps what the process wrote *)
ProcessCrash ==
    /\ phase = "up"
    /\ phase' = "crashed"
    /\ manifestDir' = [manifestDir EXCEPT !.pc = "idle"]
    /\ lastOp' = Event("KILL")
    /\ UNCHANGED <<manifest, manifestFrame>>

(* the machine dies at any step: only what has reached the disk is left *)
MachineCrash ==
    /\ phase = "up"
    /\ phase' = "crashed"
    /\ manifestDir' = [manifestDir EXCEPT !.tmp = manifestDir.dtmp,
                                           !.json = manifestDir.djson,
                                           !.bytes = manifestDir.dbytes,
                                           !.pc = "idle"]
    /\ manifest' = JsonFile(manifestDir')
    /\ lastOp' = Event("POWEROFF")
    /\ UNCHANGED manifestFrame

(* the next start reads the manifest (LoadSnapshot); a read error fails the start *)
ManifestRead ==
    /\ phase = "crashed"
    /\ LET r == ReadManifest(manifestDir) IN
        /\ lastOp' = Result("", "READMANIFEST", <<>>, r.err, <<>>, r.manifest.Snap, NoExpiry)
        /\ phase' = IF r.err = "" THEN "up" ELSE "crashed"
    /\ UNCHANGED <<manifest, manifestDir, manifestFrame>>

NextManifest ==
    \/ WriteManifestOpen
    \/ WriteManifestData
    \/ WriteManifestSyncDir
    \/ WriteManifestRename
    \/ \E i \in 1..MaxManifestWrites : Writeback(i)
    \/ CommitDir
    \/ ProcessCrash
    \/ MachineCrash
    \/ ManifestRead

SpecManifest == Init /\ [][NextManifest]_vars

---------------------------------------------------------------------------
(* store.go called directly, as the package's tests call it: the in-memory Store *)
(* with keys that pass and keys that fail validation, and with values that are   *)
(* and are not integers                                                          *)

LongKey == [i \in 1..(MaxKeyBytes + 1) |-> 107]
LongBadKey == [i \in 1..(MaxKeyBytes + 1) |-> 32]

StoreKeys == {<<>>, K1, <<255>>, LongKey, KBad, <<32>>, <<127>>, <<107, 31>>, LongBadKey}

StoreValues == {ValA, FormatInt(IntMax)}

StoreDeltas == {1, -1}

StoreCall(op, key, err, value, version, n) == Result("store", op, key, err, value, version, n)

storeFrame == <<phase, now, diskVars, snapVars, lockVars, conn, sweepPc, starts, ghostVars>>

CallGet(k) ==
    /\ lastOp' = StoreCall("Get", k, StoreGet(data, k, now).err, StoreGet(data, k, now).entry.Value,
                           StoreGet(data, k, now).entry.Version,
                           StoreGet(data, k, now).entry.ExpiryMs)
    /\ data' = StoreGet(data, k, now).data
    /\ UNCHANGED <<expiryHeap, opCount, storeFrame>>

CallExists(k) ==
    /\ lastOp' = StoreCall("Exists", k, IF StoreExists(data, k, now) THEN "true" ELSE "false",
                           <<>>, 0, NoExpiry)
    /\ UNCHANGED <<data, expiryHeap, opCount, storeFrame>>

CallTTL(k) ==
    /\ lastOp' = StoreCall("TTL", k, "", <<>>, 0, StoreTTL(data, k, now))
    /\ UNCHANGED <<data, expiryHeap, opCount, storeFrame>>

CallSet(k, v, opts) ==
    /\ opCount < MaxStoreOps
    /\ opCount' = opCount + 1
    /\ lastOp' = StoreCall("Set", k, StoreSet(data, expiryHeap, k, v, opts, now).err, v,
                           StoreSet(data, expiryHeap, k, v, opts, now).version, NoExpiry)
    /\ data' = StoreSet(data, expiryHeap, k, v, opts, now).data
    /\ expiryHeap' = StoreSet(data, expiryHeap, k, v, opts, now).heap
    /\ UNCHANGED storeFrame

CallDelete(k) ==
    /\ opCount < MaxStoreOps
    /\ opCount' = opCount + 1
    /\ lastOp' = StoreCall("Delete", k, IF StoreDelete(data, k, now).deleted THEN "true" ELSE "false",
                           <<>>, 0, NoExpiry)
    /\ data' = StoreDelete(data, k, now).data
    /\ UNCHANGED <<expiryHeap, storeFrame>>

CallExpire(k, ttlMs) ==
    /\ opCount < MaxStoreOps
    /\ opCount' = opCount + 1
    /\ lastOp' = StoreCall("Expire", k, StoreExpire(data, expiryHeap, k, ttlMs, now).err,
                           <<>>, 0, NoExpiry)
    /\ data' = StoreExpire(data, expiryHeap, k, ttlMs, now).data
    /\ expiryHeap' = StoreExpire(data, expiryHeap, k, ttlMs, now).heap
    /\ UNCHANGED storeFrame

(* the returned integer is recorded as the text WriteInteger would send *)
CallIncr(k, delta) ==
    /\ opCount < MaxStoreOps
    /\ opCount' = opCount + 1
    /\ lastOp' = StoreCall("Incr", k, StoreIncr(data, k, delta, now).err,
                           FormatInt(StoreIncr(data, k, delta, now).newVal), 0, NoExpiry)
    /\ data' = StoreIncr(data, k, delta, now).data
    /\ UNCHANGED <<expiryHeap, storeFrame>>

NextStore ==
    \/ Tick
    \/ \E k \in StoreKeys : CallGet(k)
    \/ \E k \in StoreKeys : CallExists(k)
    \/ \E k \in StoreKeys : CallTTL(k)
    \/ \E k \in StoreKeys, v \in StoreValues, opts \in SetOptionsSet : CallSet(k, v, opts)
    \/ \E k \in StoreKeys : CallDelete(k)
    \/ \E k \in StoreKeys, ttlMs \in TTLs : CallExpire(k, ttlMs)
    \/ \E k \in StoreKeys, delta \in StoreDeltas : CallIncr(k, delta)

SpecStore == Init /\ [][NextStore]_vars

---------------------------------------------------------------------------
(* one connection whose mutating commands the in-memory store rejects as well as  *)
(* accepts: an invalid key, an invalid key longer than max_key_bytes, a value      *)
(* longer than max_value_bytes, a value that is not an integer, and the NX, XX     *)
(* and VER options                                                                 *)

RejectKeys == {K1, KBad, LongBadKey}

RejectValues == {ValA, [i \in 1..(MaxValueBytes + 1) |-> 97]}

RejectArgLists == {<<>>, <<Opt("NX", 0)>>, <<Opt("XX", 0)>>, <<Opt("VER", 2)>>, <<Opt("PXAT", 3)>>}

NextReject ==
    \/ Tick
    \/ \E c \in Clients, name \in MutatingNames : Admit(c, name)
    \/ \E c \in Clients : Lock(c)
    \/ \E c \in Clients, k \in RejectKeys, v \in RejectValues, args \in RejectArgLists,
          skew \in Skews, outcome \in Outcomes : ExecSetLine(c, k, v, args, skew, outcome)
    \/ \E c \in Clients, k \in RejectKeys, outcome \in Outcomes : ExecDel(c, k, outcome)
    \/ \E c \in Clients, k \in RejectKeys, ttlMs \in TTLs, skew \in Skews, outcome \in Outcomes :
          ExecExpire(c, k, ttlMs, skew, outcome)
    \/ \E c \in Clients, k \in RejectKeys, delta \in Deltas, outcome \in Outcomes :
          ExecIncr(c, k, delta, outcome)

SpecReject == InitOn(Clients, RejectKeys, EmptyMap) /\ [][NextReject]_vars

---------------------------------------------------------------------------
(* Properties *)

SetReplied == lastOp.op \in {"SET", "MSET"} /\ lastOp.status = "OK"

(* C1: when PersistentStore.Set has just returned success with version n, a GET of *)
(* the same key at that moment returns the value that was set, with version n.     *)
C1_SetThenGet ==
    SetReplied =>
        LET g == StoreGet(data, lastOp.key, now)
        IN  /\ g.err = ""
            /\ g.entry.Value = lastOp.value
            /\ g.entry.Version = lastOp.version

(* a SET with an expiry that falls on the current clock reading has just succeeded *)
C1_Witness ==
    /\ lastOp.op = "SET"
    /\ lastOp.status = "OK"
    /\ lastOp.version = 2
    /\ lastOp.expiryMs = now

HoldsUnexpired(k) ==
    /\ k \in DOMAIN data
    /\ (data[k].ExpiryMs < 0 \/ now <= data[k].ExpiryMs)

(* C2: in every reachable state Get(k) returns an entry exactly when the map holds  *)
(* an entry for k whose expiry has not passed, the entry returned is that entry,    *)
(* and Exists(k) agrees with Get(k).                                                *)
C2_GetIffLive ==
    \A k \in Keys :
        LET g == StoreGet(data, k, now)
        IN  /\ (g.err = "") <=> HoldsUnexpired(k)
            /\ g.err = "" => g.entry = data[k]
            /\ StoreExists(data, k, now) <=> (g.err = "")

(* the map still holds an entry whose expiry has passed, and Get does not return it *)
C2_Witness ==
    \E k \in Keys :
        /\ k \in DOMAIN data
        /\ data[k].ExpiryMs >= 0
        /\ now > data[k].ExpiryMs
        /\ StoreGet(data, k, now).err = "KeyNotFound"

Restarted(how) == lastOp.op = "START" /\ lastOp.status = how

(* C3: after a shutdown and a restart on the same data directory the recovered      *)
(* store holds exactly the entries that were live before the restart, each with the *)
(* same value, version and expiry.                                                  *)
C3_RestartExact ==
    [][(phase = "stopped" /\ phase' = "up") =>
          LiveView(data', now') = LiveView(preData, now)]_vars

(* C4: with every acknowledged write synced, after a kill and a restart every key   *)
(* whose last write was acknowledged is recovered as that write left it: present    *)
(* with the value and version of an acknowledged SET, INCR or DECR whose expiry has *)
(* not passed, and not readable after an acknowledged DEL.                          *)
C4_AckedSurviveKill ==
    Restarted("crashed") =>
        \A k \in Keys :
            /\ (acked[k].kind = "val" /\ ~IsExpired(acked[k], now)) =>
                  /\ k \in DOMAIN data
                  /\ data[k].Value = acked[k].Value
                  /\ data[k].Version = acked[k].Version
            /\ acked[k].kind = "del" => ~StoreExists(data, k, now)

FirstBad(seg) ==
    IF \E j \in 1..Len(seg) : ~seg[j].Valid
    THEN CHOOSE j \in 1..Len(seg) : ~seg[j].Valid /\ \A i \in 1..(j - 1) : seg[i].Valid
    ELSE Len(seg) + 1

RECURSIVE ApplyPrefix(_, _, _)
ApplyPrefix(d, seg, n) ==
    IF n = 0 THEN d ELSE ApplyRecord(ApplyPrefix(d, seg, n - 1), seg[n])

RECURSIVE ApplyValidPrefixes(_, _, _)
ApplyValidPrefixes(d, files, S) ==
    IF S = {} THEN d
    ELSE LET i == CHOOSE x \in S : \A y \in S : y <= x
         IN  ApplyPrefix(ApplyValidPrefixes(d, files, S \ {i}), files[i],
                         FirstBad(files[i]) - 1)

(* the store a recovery has to produce: the snapshot's unexpired entries, then, for *)
(* each segment from the manifest's one on, the records before its first bad record *)
ExpectedRecovery ==
    LET ls == LoadSnapshot(snapFiles, manifest, now)
    IN  ApplyValidPrefixes(ls.data, walFiles,
                           {i \in DOMAIN walFiles : i >= ls.nextWAL})

(* C5: when WAL segments hold damaged records, startup recovery succeeds, the       *)
(* records of a segment before its first damaged record are applied, and nothing    *)
(* from that record onward in the segment is applied.                               *)
C5_DamagedTailRecovery ==
    /\ lastOp.op # "STARTFAIL"
    /\ lastOp.op = "START" => data = ExpectedRecovery

(* a recovery has run over a segment that ends in a damaged record preceded by a    *)
(* good one, and the good one has been applied                                      *)
C5_Witness ==
    /\ lastOp.op = "START"
    /\ \E i \in DOMAIN walFiles :
          /\ Len(walFiles[i]) = 2
          /\ walFiles[i][1].Valid
          /\ walFiles[i][1].Type = RecordTypeSET
          /\ ~walFiles[i][2].Valid
          /\ walFiles[i][1].Key \in DOMAIN data

(* C6: once a snapshot cycle has written the snapshot, updated the manifest and     *)
(* rotated the WAL, and has gone as far as it goes, the data directory holds        *)
(* exactly one snapshot file and exactly one WAL segment, the post-rotation one.    *)
C6_OneSnapshotOneWAL ==
    (phase = "up" /\ manifest # NoManifest /\ curWAL > manifest.NextWAL
        /\ snapPc \in {"idle", "blocked"} /\ starts = 1)
    => /\ Cardinality(DOMAIN snapFiles) = 1
       /\ DOMAIN walFiles = {curWAL}

(* C7: every snapshot cycle that sets the pause flag eventually clears it *)
C7_PauseCleared == (snapshotPaused = 1) ~> (snapshotPaused = 0)

(* the snapshot worker is scheduled while it can take a step *)
FairSpec == Spec /\ WF_vars(\E outcome \in SnapOutcomes, rotation \in {"ok", "fail"} :
                               SnapRun(outcome, rotation))

Dispatched(c) ==
    /\ phase = "up"
    /\ conn[c].pc = "idle"
    /\ conn'[c].pc = "admitted" \/ lastOp'.client = c

(* C8: a mutating command dispatched while the pause flag is set is answered BUSY   *)
(* and changes neither the store nor the WAL; a non-mutating command dispatched in  *)
(* that state gets its normal reply.                                                *)
C8_BusyWhilePaused ==
    [][\A c \in Clients :
          (snapshotPaused = 1 /\ Dispatched(c)) =>
              IF conn'[c].pc = "admitted" \/ lastOp'.op \in MutatingNames
              THEN /\ lastOp'.status = "BUSY"
                   /\ conn'[c].pc = "idle"
                   /\ UNCHANGED <<data, expiryHeap, walFiles, walIndex, curWAL>>
              ELSE /\ lastOp'.op \in ReadNames
                   /\ lastOp'.status # "BUSY"
                   /\ lastOp'.op = "GET" =>
                         (lastOp'.status = "VALUE" <=> HoldsUnexpired(lastOp'.key))
                   /\ UNCHANGED <<walFiles, walIndex, curWAL>>]_vars

(* a DEL has just been answered BUSY during a snapshot pause *)
C8_Witness ==
    /\ snapshotPaused = 1
    /\ lastOp.op = "DEL"
    /\ lastOp.status = "BUSY"
    /\ data # EmptyMap

ClientMutationStep ==
    \E c \in Clients : conn[c].pc = "locked" /\ conn'[c].pc # "locked"

(* C9: from the moment the pause flag is set until it is cleared, no client         *)
(* mutation changes the in-memory map or appends a WAL record.                      *)
C9_StopTheWorld ==
    [][(snapshotPaused = 1 /\ phase = "up" /\ ClientMutationStep) =>
          UNCHANGED <<data, walFiles>>]_vars

VersionReplied ==
    /\ lastOp'.op \in {"SET", "MSET", "INCR", "DECR"}
    /\ lastOp'.status = "OK"
    /\ ClientMutationStep

(* C10 as stated: for each key, the versions that successive successful mutations   *)
(* return are strictly increasing, across DEL, expiry and re-creation too.          *)
C10_StrictlyIncreasing ==
    [][VersionReplied => lastOp'.version > produced[lastOp'.key]]_vars

(* C10, amended: a successful SET, INCR or DECR of a key that is live returns the   *)
(* entry's version plus one; on a key that is absent or expired it returns 1; a     *)
(* successful EXPIRE leaves the entry's version as it is.                           *)
C10_VersionRule ==
    [][/\ VersionReplied =>
            /\ lastOp'.version = IF Live(lastOp'.key) THEN data[lastOp'.key].Version + 1 ELSE 1
            /\ data'[lastOp'.key].Version = lastOp'.version
       /\ (lastOp'.op = "EXPIRE" /\ lastOp'.status = "OK" /\ ClientMutationStep) =>
            data'[lastOp'.key].Version = data[lastOp'.key].Version]_vars

(* a SET has just re-created, with version 1, a key whose earlier SET had also been *)
(* logged with version 1 and is no longer live (expired, deleted or rolled back)    *)
C10_Witness ==
    /\ lastOp.op = "SET"
    /\ lastOp.status = "OK"
    /\ lastOp.version = 1
    /\ \E i \in DOMAIN walFiles :
          /\ Len(walFiles[i]) = 2
          /\ \A j \in 1..2 :
                /\ walFiles[i][j].Type = RecordTypeSET
                /\ walFiles[i][j].Key = lastOp.key
                /\ walFiles[i][j].Version = 1

(* the record at the end of the segment the WAL manager writes to *)
LastRecord(files, cur) == files[cur][Len(files[cur])]

(* C11: a successful SET, MSET pair, INCR or DECR stores version 1 when the key is  *)
(* absent or expired and the old version plus one when it is live; SET returns the  *)
(* version it stored, and the record logged for the write carries that version.     *)
C11_StoredVersion ==
    [][VersionReplied =>
          LET k == lastOp'.key
          IN  /\ k \in DOMAIN data'
              /\ data'[k].Version =
                    IF k \in DOMAIN data /\ ~IsExpired(data[k], now)
                    THEN data[k].Version + 1 ELSE 1
              /\ lastOp'.op \in {"SET", "MSET"} => lastOp'.version = data'[k].Version
              /\ Len(walFiles'[curWAL']) > 0
              /\ LastRecord(walFiles', curWAL').Key = k
              /\ LastRecord(walFiles', curWAL').Version = data'[k].Version]_vars

(* an INCR of a live counter has just stored "2" with version 2 *)
C11_Witness ==
    /\ lastOp.op = "INCR"
    /\ lastOp.status = "OK"
    /\ lastOp.key \in DOMAIN data
    /\ data[lastOp.key].Version = 2
    /\ data[lastOp.key].Value = <<50>>

(* the step is the SET of the command line args by connection c *)
SetLineStep(c, k, args) ==
    /\ conn[c].cmd = "SET"
    /\ \E v \in Values, skew \in Skews, outcome \in Outcomes :
          ExecSetLine(c, k, v, args, skew, outcome)

StoreAndWALUnchanged == UNCHANGED <<data, expiryHeap, walFiles, walIndex, curWAL>>

(* C12: a SET with NX on a live key is answered ERR EXISTS, a SET with XX on a     *)
(* missing or expired key ERR NEXISTS, a SET with VER n on a live key whose        *)
(* version is not n ERR VER; each leaves the key's entry and the WAL unchanged.    *)
C12_ConditionalSetErrors ==
    [][\A c \in Clients, k \in CmdKeys, args \in CmdArgLists :
          SetLineStep(c, k, args) =>
              LET o == handleSetOptions(args).opts
              IN  /\ (validateKey(k) = "" /\ o.NX /\ HoldsUnexpired(k)) =>
                        (lastOp'.status = "EXISTS" /\ StoreAndWALUnchanged)
                  /\ (validateKey(k) = "" /\ o.XX /\ ~HoldsUnexpired(k)) =>
                        (lastOp'.status = "NEXISTS" /\ StoreAndWALUnchanged)
                  /\ (validateKey(k) = "" /\ o.CheckVersion /\ HoldsUnexpired(k)
                         /\ data[k].Version # o.Version) =>
                        (lastOp'.status = "VER" /\ StoreAndWALUnchanged)]_vars

(* a SET with XX has just been refused on a key whose expired entry is still in the map *)
C12_Witness ==
    /\ lastOp.op = "SET"
    /\ lastOp.status = "NEXISTS"
    /\ lastOp.key \in DOMAIN data
    /\ IsExpired(data[lastOp.key], now)

(* C13: a SET carrying VER n writes the key only if the key is live with version    *)
(* exactly n; every other SET with VER n leaves the store unchanged.                *)
C13_VersionGuard ==
    [][\A c \in Clients, k \in CmdKeys, args \in CmdArgLists :
          (SetLineStep(c, k, args) /\ handleSetOptions(args).opts.CheckVersion) =>
              \/ HoldsUnexpired(k) /\ data[k].Version = handleSetOptions(args).opts.Version
              \/ UNCHANGED <<data, expiryHeap, walFiles>>]_vars

CASReply(c) == conn[c].pc = "locked" /\ conn'[c].pc = "idle"

(* C14: of the SETs with VER n that connections send concurrently against a live    *)
(* key at version n, exactly one succeeds, producing version n + 1, and every other *)
(* one fails with a version mismatch.                                               *)
C14_AtomicCAS ==
    [][\A c \in CASClients :
          CASReply(c) =>
              IF produced[K1] = 0
              THEN lastOp'.status = "OK" /\ lastOp'.version = 2
              ELSE lastOp'.status = "VER" /\ UNCHANGED data]_vars

(* C15: Incr on an absent or expired key starts from 0; on a live key whose value   *)
(* is not a base-10 signed integer of the machine width it fails with NotInteger    *)
(* and leaves the entry unchanged; otherwise it stores current + delta as decimal   *)
(* text with no expiry and returns that integer.                                    *)
C15_IncrSemantics ==
    [][\A k \in StoreKeys, delta \in StoreDeltas :
          (CallIncr(k, delta) /\ validateKey(k) = "") =>
              LET p == IF HoldsUnexpired(k) THEN ParseInt(data[k].Value)
                       ELSE [ok |-> TRUE, val |-> 0]
              IN  IF ~p.ok
                  THEN lastOp'.status = "NotInteger" /\ UNCHANGED data
                  ELSE /\ lastOp'.status = ""
                       /\ lastOp'.value = FormatInt(p.val + delta)
                       /\ data'[k].Value = FormatInt(p.val + delta)
                       /\ data'[k].ExpiryMs = NoExpiry]_vars

(* C16: TTL(k) is -2 when k is missing, invalid or expired, -1 when k is live       *)
(* without expiry, and otherwise expiry_ms - now, which is not negative; TTL(k) is  *)
(* -2 exactly when Exists(k) is false; a TTL call returns that value.               *)
C16_TTLValues ==
    /\ \A k \in StoreKeys :
          LET ttl == StoreTTL(data, k, now)
          IN  /\ (ttl = -2) <=> ~StoreExists(data, k, now)
              /\ validateKey(k) # "" => ttl = -2
              /\ k \notin DOMAIN data => ttl = -2
              /\ k \in DOMAIN data =>
                    IF data[k].ExpiryMs < 0 THEN ttl = -1
                    ELSE IF now > data[k].ExpiryMs THEN ttl = -2
                    ELSE ttl = data[k].ExpiryMs - now /\ ttl >= 0
    /\ (lastOp.client = "store" /\ lastOp.op = "TTL") =>
          lastOp.expiryMs = StoreTTL(data, lastOp.key, now)

(* a TTL call has just returned -2 for a key whose expired entry is still in the map *)
C16_Witness ==
    /\ lastOp.client = "store"
    /\ lastOp.op = "TTL"
    /\ lastOp.expiryMs = -2
    /\ lastOp.key \in DOMAIN data
    /\ now > data[lastOp.key].ExpiryMs

(* a key with a space, a C0 control byte or the DEL byte *)
HasForbiddenByte(key) == \E i \in 1..Len(key) : key[i] \in (0..32) \cup {127}

(* what a store call answers for an invalid key; sizeFirst: Set tests the key's *)
(* length before its bytes                                                      *)
InvalidKeyAnswer(r, sizeFirst) ==
    CASE r.op \in {"Get", "Expire", "Incr"} -> r.status = "KeyInvalid"
      [] r.op = "Set" ->
            r.status = IF sizeFirst /\ Len(r.key) > MaxKeyBytes
                       THEN "KeyTooLarge" ELSE "KeyInvalid"
      [] r.op \in {"Delete", "Exists"} -> r.status = "false"
      [] r.op = "TTL" -> r.expiryMs = -2
      [] OTHER -> FALSE

KeyValidationStep(sizeFirst) ==
    lastOp'.client = "store" =>
        IF HasForbiddenByte(lastOp'.key)
        THEN InvalidKeyAnswer(lastOp', sizeFirst) /\ UNCHANGED <<data, expiryHeap>>
        ELSE lastOp'.status # "KeyInvalid"

(* C17, as stated: for a key with a space, a C0 control byte or 0x7F, Get, Set,    *)
(* Expire and Incr return KeyInvalid, Delete and Exists return false, TTL returns   *)
(* -2, and the store is unchanged; every other key passes validation.               *)
C17_KeyInvalidAlways == [][KeyValidationStep(FALSE)]_vars

(* C17, amended: the same, except that Set returns KeyTooLarge rather than          *)
(* KeyInvalid when the invalid key is also longer than max_key_bytes.               *)
C17_KeyValidation == [][KeyValidationStep(TRUE)]_vars

(* Set has just refused an invalid key that is longer than max_key_bytes *)
C17_Witness ==
    /\ lastOp.client = "store"
    /\ lastOp.op = "Set"
    /\ HasForbiddenByte(lastOp.key)
    /\ Len(lastOp.key) > MaxKeyBytes
    /\ lastOp.status = "KeyTooLarge"

(* C18: every GET, SET, EXPIRE, INCR, DECR, MGET or MSET whose key fails key       *)
(* validation is answered ERR BADREQ.                                               *)
C18_InvalidKeyBadReq ==
    (/\ lastOp.client \in Clients
     /\ lastOp.op \in {"GET", "SET", "EXPIRE", "INCR", "DECR", "MGET", "MSET"}
     /\ HasForbiddenByte(lastOp.key)) => lastOp.status = "BADREQ"

(* a SET command line with both an EX token and a PXAT token *)
BothExpiryOptions(args) ==
    \E i, j \in 1..Len(args) : args[i].opt = "EX" /\ args[j].opt = "PXAT"

(* C19: a SET command line with both an EX and a PXAT option is answered           *)
(* ERR BADREQ, whatever the two values are, and leaves the store and the WAL        *)
(* unchanged.                                                                       *)
C19_ExclusiveExpiry ==
    [][\A c \in Clients, k \in CmdKeys, args \in CmdArgLists :
          (BothExpiryOptions(args) /\ (SetLineStep(c, k, args) \/ SetBadReq(c, k, args))) =>
              lastOp'.status = "BADREQ" /\ StoreAndWALUnchanged]_vars

(* C20: heap soundness: in every reachable state each map entry with               *)
(* expiry_ms > 0 has at least one heap node carrying its key and its current        *)
(* expiry_ms.                                                                       *)
C20_HeapSoundness ==
    \A k \in DOMAIN data :
        data[k].ExpiryMs > 0 =>
            BagIn([Key |-> k, ExpiryMs |-> data[k].ExpiryMs], expiryHeap)

(* after a restart, an entry with an expiry has its node next to a stale node of *)
(* the same key                                                                  *)
C20_Witness ==
    /\ starts > 1
    /\ \E k \in DOMAIN data :
          /\ data[k].ExpiryMs > 0
          /\ BagIn([Key |-> k, ExpiryMs |-> data[k].ExpiryMs], expiryHeap)
          /\ \E node \in BagToSet(expiryHeap) :
                node.Key = k /\ node.ExpiryMs # data[k].ExpiryMs

(* a run of the expiry sweeper *)
SweepStep == \E outcome \in {"ok", "fail"} : Sweep(outcome)

(* C21: the sweeper never removes an entry that is not expired at the time of the   *)
(* removal: a popped node whose key is absent, has no expiry or has a later expiry  *)
(* deletes nothing, and an entry with a later expiry has a node with that expiry    *)
(* in the heap afterwards.                                                          *)
C21_SweepOnlyExpired ==
    [][SweepStep =>
          /\ DOMAIN data' \subseteq DOMAIN data
          /\ \A k \in DOMAIN data :
                IF k \in DOMAIN data'
                THEN /\ data'[k] = data[k]
                     /\ data[k].ExpiryMs > 0 =>
                           BagIn([Key |-> k, ExpiryMs |-> data[k].ExpiryMs], expiryHeap')
                ELSE data[k].ExpiryMs >= 0 /\ now > data[k].ExpiryMs]_vars

(* a sweep has just popped the last node of the heap, a stale one, and the key it *)
(* named is still in the map, without expiry                                      *)
C21_Witness ==
    /\ lastOp.op = "SWEEP"
    /\ expiryHeap = EmptyBag
    /\ \E k \in DOMAIN data : data[k].ExpiryMs = NoExpiry

(* createSnapshot writes a snapshot file (and, with written = "ok", its manifest) *)
SnapshotStep(written) == \E rotation \in {"ok", "fail"} : SnapRun(written, rotation)

(* the snapshot file recs holds one equal record per entry of d that is live at t, *)
(* and nothing else                                                                *)
FileMatchesLive(recs, d, t) ==
    /\ \A k \in DOMAIN d :
          (d[k].ExpiryMs < 0 \/ t <= d[k].ExpiryMs) =>
              [Key |-> k, Value |-> d[k].Value, Version |-> d[k].Version,
               ExpiryMs |-> d[k].ExpiryMs] \in recs
    /\ \A r \in recs :
          /\ r.Key \in DOMAIN d
          /\ d[r.Key].ExpiryMs < 0 \/ t <= d[r.Key].ExpiryMs
          /\ r.Value = d[r.Key].Value
          /\ r.Version = d[r.Key].Version
          /\ r.ExpiryMs = d[r.Key].ExpiryMs

(* loading at time t reproduces the entries of d that were live at the snapshot; *)
(* atLoad: only those of them that are not expired at t                         *)
LoadReproduces(loaded, d, t, atLoad) ==
    /\ DOMAIN loaded =
          {k \in DOMAIN d : /\ d[k].ExpiryMs < 0 \/ now <= d[k].ExpiryMs
                            /\ atLoad => (d[k].ExpiryMs < 0 \/ t <= d[k].ExpiryMs)}
    /\ \A k \in DOMAIN loaded :
          /\ loaded[k].Value = d[k].Value
          /\ loaded[k].Version = d[k].Version
          /\ loaded[k].ExpiryMs = d[k].ExpiryMs

SnapshotFidelity(atLoad) ==
    /\ (SnapshotStep("ok") \/ SnapshotStep("manifestfail")) =>
          FileMatchesLive(snapFiles'[snapIndex], data, now)
    /\ SnapshotStep("ok") =>
          \A t \in now..MaxTime :
              /\ LoadSnapshot(snapFiles', manifest', t).err = ""
              /\ LoadReproduces(LoadSnapshot(snapFiles', manifest', t).data, data, t, atLoad)

(* C22, as stated: the snapshot file holds an equal record for every entry that is *)
(* live and not expired when the snapshot is taken and no other record, and loading *)
(* it into an empty store reproduces exactly those entries, versions unchanged.     *)
C22_LoadReproducesAll == [][SnapshotFidelity(FALSE)]_vars

(* C22, amended: the same, except that loading reproduces those of the entries that *)
(* are not expired at the time of the load.                                         *)
C22_SnapshotFidelity == [][SnapshotFidelity(TRUE)]_vars

(* a restart has loaded a snapshot and skipped a record of it that had expired *)
C22_Witness ==
    /\ lastOp.op = "START"
    /\ phase = "up"
    /\ manifest # NoManifest
    /\ \E r \in snapFiles[manifest.Snap] :
          /\ r.ExpiryMs >= 0
          /\ now > r.ExpiryMs
          /\ r.Key \notin DOMAIN data

(* NewPersistentStore has just returned a store *)
Started == phase # "up" /\ phase' = "up"

(* what NewPersistentStore builds at time t from the data directory with the WAL *)
(* segments files: [err, data, heap]                                             *)
StartOn(files, t) == Recover(snapFiles, manifest, NewWALManager(files).files, t)

(* C23: recovery idempotence: a second start on the data directory that a start has *)
(* left, with no operation in between, builds the in-memory map that the first      *)
(* start built, and at any later time the map that a single start would build then. *)
C23_RecoveryIdempotent ==
    [][Started =>
          /\ StartOn(walFiles', now).err = ""
          /\ StartOn(walFiles', now).data = data'
          /\ \A t \in now..MaxTime : StartOn(walFiles', t) = StartOn(walFiles, t)]_vars

(* a restart has rebuilt a non-empty map from a snapshot and the WAL after it *)
C23_Witness ==
    /\ lastOp.op = "START"
    /\ phase = "up"
    /\ starts > 1
    /\ manifest # NoManifest
    /\ data # EmptyMap
    /\ \E i \in DOMAIN walFiles : i >= manifest.NextWAL /\ walFiles[i] # <<>>

RECURSIVE SegmentsInOrder(_, _)
SegmentsInOrder(files, S) ==
    IF S = {} THEN <<>>
    ELSE files[MinIndex(S)] \o SegmentsInOrder(files, S \ {MinIndex(S)})

IsLogged(change) == change.logged

(* C24: for any interleaving of client mutations and sweeper evictions, the records *)
(* of the WAL are in the order in which their changes were applied to the map.      *)
C24_WALOrder ==
    LET logged == SelectSeq(applied, IsLogged)
    IN  SegmentsInOrder(walFiles, DOMAIN walFiles) = [j \in 1..Len(logged) |-> logged[j].rec]

(* a connection has just been answered while the sweeper, which deleted a key after *)
(* the connection's change and before its append, waits for ps.mu                   *)
C24_Witness ==
    /\ lastOp.client \in CASClients
    /\ lastOp.status = "OK"
    /\ sweepPc = "blocked"
    /\ Len(applied) >= 2
    /\ applied[Len(applied)].by = "sweeper"
    /\ ~applied[Len(applied)].logged
    /\ applied[Len(applied) - 1].by = lastOp.client
    /\ applied[Len(applied) - 1].logged

(* the changes made to key k, in the order in which they were applied *)
ChangesOf(k) == SelectSeq(applied, LAMBDA ch : ch.rec.Key = k)

(* the reply r to a GET shows the effect of the change ch at time t; the expiry an *)
(* EXPIRE leaves is its record's expiry, less the time between its two clock       *)
(* readings                                                                        *)
Observes(r, ch, t) ==
    IF ch.rec.Type = RecordTypeDEL THEN r.status = "NOT_FOUND"
    ELSE IF ch.rec.Type = RecordTypeSET
    THEN IF ch.rec.ExpiryMs >= 0 /\ t > ch.rec.ExpiryMs
         THEN r.status = "NOT_FOUND"
         ELSE /\ r.status = "VALUE"
              /\ r.value = ch.rec.Value
              /\ r.version = ch.rec.Version
              /\ r.expiryMs = ch.rec.ExpiryMs
    ELSE \E skew \in Skews :
            IF t > ch.rec.ExpiryMs - skew
            THEN r.status = "NOT_FOUND"
            ELSE /\ r.status = "VALUE"
                 /\ r.version = ch.rec.Version
                 /\ r.expiryMs = ch.rec.ExpiryMs - skew

(* C25: a request parsed after the response to a mutating request was sent observes *)
(* that request's effect: a GET of a key whose last change has been answered        *)
(* returns what that change left.                                                   *)
C25_ReadsSeeAnswered ==
    [][\A c \in CASClients, k \in Keys :
          (/\ Read(c, "GET", k)
           /\ ChangesOf(k) # <<>>
           /\ ChangesOf(k)[Len(ChangesOf(k))].logged
           /\ ChangesOf(k)[Len(ChangesOf(k))].by \in CASClients) =>
              Observes(lastOp', ChangesOf(k)[Len(ChangesOf(k))], now)]_vars

(* a GET has just returned the entry that a SET on the other connection, already *)
(* answered, wrote over an earlier version                                       *)
C25_Witness ==
    /\ lastOp.op = "GET"
    /\ lastOp.status = "VALUE"
    /\ lastOp.version >= 2
    /\ ChangesOf(lastOp.key) # <<>>
    /\ LET ch == ChangesOf(lastOp.key)[Len(ChangesOf(lastOp.key))]
       IN  /\ ch.logged
           /\ ch.by \in CASClients \ {lastOp.client}
           /\ ch.rec.Type = RecordTypeSET
           /\ ch.rec.Version = lastOp.version

(* C26: after a crash of the process or of the machine at any step of a
   manifest write, the next read of the manifest returns a whole manifest (the
   one before the write or the new one) or "no manifest yet", never an error
   over an empty or cut-short file *)
C26_ManifestAtomic ==
    lastOp.op = "READMANIFEST" =>
        /\ lastOp.status = ""
        /\ lastOp.version \in 0..manifestDir.writes

(* C27: no thread waits forever for PersistentStore.mu, Store.mu or
   WALManager.mu: the snapshot worker never waits for the WAL manager's mutex
   while holding it, and the sweeper never waits for PersistentStore.mu under
   Store.mu while the handler that holds PersistentStore.mu waits for Store.mu *)
WaitsOnItself == snapPc = "blocked" /\ walMu = "snapshot"

WaitsInCycle ==
    /\ sweepPc = "blocked"
    /\ storeMu = "sweeper"
    /\ \E c \in DOMAIN conn : psMu = c /\ conn[c].pc = "locked"

C27_DeadlockFree == ~WaitsOnItself /\ ~WaitsInCycle

(* C28: an EXPIRE answered OK leaves the key with its version increased by
   exactly 1, its value unchanged and only the expiry set anew *)
C28_ExpireBumpsVersion ==
    [][\A k \in Keys :
          (lastOp'.op = "EXPIRE" /\ lastOp'.status = "OK" /\ lastOp'.key = k) =>
              /\ k \in DOMAIN data /\ k \in DOMAIN data'
              /\ data'[k] = [data[k] EXCEPT !.Version = @ + 1,
                                           !.ExpiryMs = data'[k].ExpiryMs]]_vars

(* the step is a SET or an INCR/DECR of connection c on key k whose in-memory
   write succeeded and whose WAL append then failed *)
SetAppendFails(c, k) ==
    /\ conn[c].pc = "locked"
    /\ conn[c].cmd = "SET"
    /\ \E v \in Values, args \in SetArgLists, skew \in Skews, outcome \in {"fail", "syncfail"} :
        LET opts == handleSetOptions(args).opts
            r    == StoreSet(data, expiryHeap, k, v, opts, now)
        IN  /\ ExecSetLine(c, k, v, args, skew, outcome)
            /\ r.err = ""
            /\ StoreGet(r.data, k, now + skew).err = ""
            /\ CanLock(walMu, c)

IncrAppendFails(c, k) ==
    /\ conn[c].pc = "locked"
    /\ conn[c].cmd \in {"INCR", "DECR"}
    /\ \E delta \in Deltas, outcome \in {"fail", "syncfail"} :
        LET r == StoreIncr(data, k, IF conn[c].cmd = "INCR" THEN delta ELSE -delta, now)
        IN  /\ ExecIncr(c, k, delta, outcome)
            /\ r.err = ""
            /\ StoreGet(r.data, k, now).err = ""
            /\ CanLock(walMu, c)

(* C29: when the WAL append of a SET or INCR/DECR fails, the command is
   answered with the internal error and the key it wrote is not in the map
   afterwards *)
C29_FailedWriteRemovesKey ==
    [][\A c \in Clients, k \in Keys :
          (SetAppendFails(c, k) \/ IncrAppendFails(c, k)) =>
              /\ lastOp'.client = c
              /\ lastOp'.status = "INTERNAL"
              /\ k \notin DOMAIN data']_vars

C29_Witness ==
    \E k \in Keys :
        /\ lastOp.op = "SET"
        /\ lastOp.key = k
        /\ lastOp.status = "INTERNAL"
        /\ produced[k] > 0
        /\ k \notin DOMAIN data

(* C30: when the WAL append of a SET or INCR/DECR on a live key fails, the
   key keeps the value, version and expiry it had before the command *)
C30_FailedWriteKeepsEntry ==
    [][\A c \in Clients, k \in Keys :
          ((SetAppendFails(c, k) \/ IncrAppendFails(c, k)) /\ Live(k)) =>
              /\ k \in DOMAIN data'
              /\ data'[k] = data[k]]_vars

(* what the claim has Store.Set answer for key k, value v and options o *)
SetRejection(k, v, o) ==
    IF Len(k) > MaxKeyBytes THEN "KeyTooLarge"
    ELSE IF HasForbiddenByte(k) THEN "KeyInvalid"
    ELSE IF Len(v) > MaxValueBytes THEN "ValueTooLarge"
    ELSE IF o.NX /\ HoldsUnexpired(k) THEN "KeyExists"
    ELSE IF o.XX /\ ~HoldsUnexpired(k) THEN "KeyNotFound"
    ELSE IF o.CheckVersion /\ HoldsUnexpired(k) /\ data[k].Version # o.Version
         THEN "VersionMismatch"
    ELSE ""

(* the handler of connection c is in its call into the persistent store *)
InCall(c, names) == conn[c].pc = "locked" /\ conn[c].cmd \in names

(* no WAL record is appended and every live entry is as it was *)
NoEffect ==
    /\ UNCHANGED <<walFiles, walIndex, curWAL>>
    /\ \A k \in DOMAIN data :
          ~IsExpired(data[k], now) => (k \in DOMAIN data' /\ data'[k] = data[k])

(* C31: a SET, MSET pair, EXPIRE, INCR/DECR or DEL that the in-memory store
   rejects (key too large, tested before the key's bytes; invalid key; value
   too large; NX, XX or VER not met; value not an integer; no live key for
   EXPIRE or DEL) is answered with the store's error, appends no WAL record
   and leaves every live entry unchanged *)
C31_RejectedMutation ==
    [][\A c \in Clients, k \in RejectKeys :
          /\ \A v \in RejectValues, args \in RejectArgLists :
                LET e == SetRejection(k, v, handleSetOptions(args).opts)
                IN  (/\ InCall(c, {"SET", "MSET"})
                     /\ e # ""
                     /\ \E skew \in Skews : ExecSetLine(c, k, v, args, skew, "ok")) =>
                        /\ lastOp'.status = IF conn[c].cmd = "MSET" THEN handleMSetError(e)
                                            ELSE handleSetError(e)
                        /\ NoEffect
          /\ (/\ InCall(c, {"EXPIRE"})
              /\ HasForbiddenByte(k) \/ ~HoldsUnexpired(k)
              /\ \E ttlMs \in TTLs, skew \in Skews : ExecExpire(c, k, ttlMs, skew, "ok")) =>
                 /\ lastOp'.status = handleExpireError(IF HasForbiddenByte(k) THEN "KeyInvalid"
                                                       ELSE "KeyNotFound")
                 /\ NoEffect
          /\ (/\ InCall(c, {"INCR", "DECR"})
              /\ HasForbiddenByte(k) \/ (HoldsUnexpired(k) /\ ~ParseInt(data[k].Value).ok)
              /\ \E delta \in Deltas : ExecIncr(c, k, delta, "ok")) =>
                 /\ lastOp'.status = handleIncrError(IF HasForbiddenByte(k) THEN "KeyInvalid"
                                                     ELSE "NotInteger")
                 /\ NoEffect
          /\ (/\ InCall(c, {"DEL"})
              /\ HasForbiddenByte(k) \/ ~HoldsUnexpired(k)
              /\ ExecDel(c, k, "ok")) =>
                 /\ lastOp'.status = "DELETED 0"
                 /\ NoEffect]_vars

(* a SET whose key is both invalid and too long has just been refused as too
   large, with a live entry in the map and its record in the WAL *)
C31_Witness ==
    /\ lastOp.op = "SET"
    /\ lastOp.key = LongBadKey
    /\ lastOp.status = "TOOLARGE"
    /\ K1 \in DOMAIN data
    /\ ~IsExpired(data[K1], now)
    /\ Len(walFiles[curWAL]) = 1

(* C32: the SET or EXPIRE record appended by a command answered OK carries the
   version and the expiry, and a SET record also the value, that the key's
   entry holds in memory right after the command *)
C32_RecordMatchesEntry ==
    [][\A k \in Keys :
          (/\ lastOp'.client \in Clients
           /\ lastOp'.op \in {"SET", "MSET", "EXPIRE", "INCR", "DECR"}
           /\ lastOp'.status = "OK"
           /\ lastOp'.key = k) =>
              LET r == LastRecord(walFiles', curWAL')
              IN  /\ k \in DOMAIN data'
                  /\ r.Key = k
                  /\ r.Type = IF lastOp'.op = "EXPIRE" THEN RecordTypeEXPIRE ELSE RecordTypeSET
                  /\ r.Version = data'[k].Version
                  /\ r.ExpiryMs = data'[k].ExpiryMs
                  /\ r.Type = RecordTypeSET => r.Value = data'[k].Value]_vars

(* the store after the snapshot's entries and the first cut[i] records of each
   segment i of S, in index order *)
RECURSIVE ApplyCuts(_, _, _, _)
ApplyCuts(d, files, S, cut) ==
    IF S = {} THEN d
    ELSE LET i == CHOOSE x \in S : \A y \in S : y <= x
         IN  ApplyPrefix(ApplyCuts(d, files, S \ {i}, cut), files[i], cut[i])

Retained == {i \in DOMAIN walFiles : i >= LoadSnapshot(snapFiles, manifest, now).nextWAL}

(* C33, as stated: the store a recovery produces is the snapshot followed by a
   prefix of all retained WAL records taken as one sequence in append order,
   the prefix ending before the first unreadable record *)
C33_PrefixOfAll ==
    lastOp.op = "START" =>
        LET all == SegmentsInOrder(walFiles, Retained)
        IN  \E n \in 0..(FirstBad(all) - 1) :
                data = ApplyPrefix(LoadSnapshot(snapFiles, manifest, now).data, all, n)

(* C33, amended: the store a recovery produces is the snapshot followed, for
   each retained segment in index order, by a prefix of that segment's records
   that ends before the segment's first unreadable record *)
C33_PrefixPerSegment ==
    lastOp.op = "START" =>
        \E cut \in [Retained -> 0..(WalMaxRecords + 1)] :
            /\ \A i \in Retained : cut[i] < FirstBad(walFiles[i])
            /\ data = ApplyCuts(LoadSnapshot(snapFiles, manifest, now).data,
                                walFiles, Retained, cut)

(* a recovery has replayed a segment that follows a segment cut short by an
   unreadable record, and the later segment's last record shows in the store *)
C33_Witness ==
    /\ lastOp.op = "START"
    /\ \E i, j \in Retained :
          /\ i < j
          /\ FirstBad(walFiles[i]) <= Len(walFiles[i])
          /\ Len(walFiles[j]) > 0
          /\ LET r == walFiles[j][Len(walFiles[j])]
             IN  /\ r.Valid
                 /\ r.Type = RecordTypeSET
                 /\ r.Key \in DOMAIN data
                 /\ data[r.Key].Version = r.Version

(* the snapshot file and the WAL segment the manifest names are among snaps and files *)
NamedFilesIn(snaps, files) ==
    manifest # NoManifest =>
        (manifest.Snap \in DOMAIN snaps /\ manifest.NextWAL \in DOMAIN files)

(* C34: in every state, a crashed or stopped process included, the snapshot
   file and the WAL segment named in MANIFEST.json are in the data directory,
   and they still are after the cleanup a finished cycle goes on to *)
C34_ManifestNamesFiles ==
    /\ NamedFilesIn(snapFiles, walFiles)
    /\ snapPc = "blocked" =>
          NamedFilesIn(CleanupOldFiles(snapFiles), DeleteOldWALs(walFiles, snapCurrentWAL))

(* a server has recovered from the manifest that a snapshot cycle wrote before
   the process was killed *)
C34_Witness ==
    /\ lastOp.op = "START"
    /\ lastOp.status = "crashed"
    /\ manifest # NoManifest
    /\ manifest.NextWAL < curWAL

(* a step in which createSnapshot returns an error: CreateSnapshot failed and left
   snapIndex alone, or rotateWAL failed and left the WAL closed *)
CycleFails ==
    /\ snapPc = "paused"
    /\ snapPc' = "idle"
    /\ (snapIndex' = snapIndex \/ walClosed')

(* C35: a snapshot cycle that fails at any step leaves MANIFEST.json with the
   content it had before the cycle began, and the worker is idle again so that
   a later tick can start another cycle *)
C35_FailedCycleKeepsManifest ==
    [][CycleFails => (manifest' = manifest /\ snapshotPaused' = 0)]_vars

---------------------------------------------------------------------------
(* the sweeper and one connection on a store recovered with two expiring keys *)

K2 == <<108>>

NextSweep ==
    \/ Tick
    \/ \E c \in Clients : Admit(c, "SET")
    \/ \E c \in Clients : Lock(c)
    \/ \E c \in Clients, k \in {K1, K2}, args \in {<<>>, <<Opt("EX", 1)>>},
          skew \in Skews, outcome \in Outcomes : ExecSetLine(c, k, ValA, args, skew, outcome)
    \/ \E outcome \in {"ok", "fail"} : Sweep(outcome)

(* NewPersistentStore on a WAL that sets both keys with an expiry; the sweeper's *)
(* ticker fires and sweepExpired runs whenever it can                            *)
SpecSweep ==
    /\ InitOn(Clients, {K1, K2},
              [i \in {1} |-> <<WALRecord(RecordTypeSET, K1, ValA, 3, 1),
                               WALRecord(RecordTypeSET, K2, ValA, 3, 1)>>])
    /\ [][NextSweep]_vars
    /\ WF_vars(\E outcome \in {"ok", "fail"} : Sweep(outcome))

(* C36: with the sweeper scheduled fairly, an entry of the running store whose
   expiry time has passed is eventually no longer in the in-memory map (or has
   been replaced by a live entry, or the process has ended) *)
C36_ExpiredEventuallyRemoved ==
    \A k \in {K1, K2} :
        (phase = "up" /\ k \in DOMAIN data /\ IsExpired(data[k], now))
            ~> (phase # "up" \/ k \notin DOMAIN data \/ ~IsExpired(data[k], now))

---------------------------------------------------------------------------
(* protocol: Parser.ParseCommand on the bytes of one connection, and
   server.go: handleConnection around it *)

MaxFrames == 2
MaxDeadlines == 2

(* the value of the decimal digits d *)
RECURSIVE Decimal(_)
Decimal(d) ==
    IF d = <<>> THEN 0 ELSE Decimal(SubSeq(d, 1, Len(d) - 1)) * 10 + (d[Len(d)] - 48)

(* strconv.Atoi on the bytes s: an optional sign and at least one decimal digit *)
Atoi(s) ==
    LET signed == s # <<>> /\ s[1] \in {43, 45}
        d == IF signed THEN Tail(s) ELSE s
    IN  IF d = <<>> \/ \E i \in 1..Len(d) : d[i] \notin 48..57
        THEN [ok |-> FALSE, val |-> 0]
        ELSE [ok |-> TRUE, val |-> IF signed /\ s[1] = 45 THEN 0 - Decimal(d) ELSE Decimal(d)]

(* readMultiPayload's totalLength: the sum of the parsed lengths *)
RECURSIVE TotalLength(_)
TotalLength(lens) ==
    IF lens = <<>> THEN 0 ELSE Head(lens).val + TotalLength(Tail(lens))

(* bufio.Reader.ReadString: the index of the first byte c of buf, 0 if there is none *)
IndexByte(buf, c) ==
    IF \E i \in 1..Len(buf) : buf[i] = c
    THEN CHOOSE i \in 1..Len(buf) : buf[i] = c /\ \A j \in 1..(i - 1) : buf[j] # c
    ELSE 0

(* strings.TrimSuffix(line, "\n") and strings.TrimSuffix(line, "\r") on the line read *)
TrimLine(buf, nl) ==
    IF nl > 1 /\ buf[nl - 1] = 13 THEN SubSeq(buf, 1, nl - 2) ELSE SubSeq(buf, 1, nl - 1)

(* strings.Fields: the maximal runs of bytes of line that are no white space *)
Fields(line) ==
    LET space == {9, 10, 11, 12, 13, 32}
        begins == {i \in 1..Len(line) : line[i] \notin space /\ (i = 1 \/ line[i - 1] \in space)}
    IN  [j \in 1..Cardinality(begins) |->
            LET b == CHOOSE x \in begins : Cardinality({t \in begins : t < x}) = j - 1
            IN  SubSeq(line, b, CHOOSE e \in b..Len(line) :
                                    /\ \A i \in b..e : line[i] \notin space
                                    /\ e = Len(line) \/ line[e + 1] \in space)]

(* strings.ToUpper *)
ToUpper(s) == [i \in 1..Len(s) |-> IF s[i] \in 97..122 THEN s[i] - 32 ELSE s[i]]

(* what ParseCommand returns after reading n bytes.  st "ok": the command name; st
   "err": an error of the parser; st "short": a read ran out of bytes, in the command
   line (line) or in the payload, having got some bytes (partial) or none *)
Parsed(st, n, name, err) ==
    [st |-> st, n |-> n, name |-> name, err |-> err, line |-> FALSE, partial |-> FALSE]

ShortRead(buf, inLine, got) ==
    [st |-> "short", n |-> Len(buf), name |-> <<>>, err |-> "", line |-> inLine,
     partial |-> got > 0]

(* readSinglePayload and readMultiPayload after the lengths lens were parsed: total
   bytes of payload are read, then two bytes that must be CRLF *)
readPayload(buf, nl, name, lens, total) ==
    IF \E j \in 1..Len(lens) : ~lens[j].ok \/ lens[j].val < 0
    THEN Parsed("err", nl, <<>>, "invalid arguments")
    ELSE IF Len(buf) - nl < total THEN ShortRead(buf, FALSE, Len(buf) - nl)
    ELSE IF Len(buf) - nl < total + 2 THEN ShortRead(buf, FALSE, Len(buf) - nl - total)
    ELSE IF <<buf[nl + total + 1], buf[nl + total + 2]>> # <<13, 10>>
         THEN Parsed("err", nl + total + 2, <<>>, "invalid payload")
    ELSE Parsed("ok", nl + total + 2, name, "")

(* ParseCommand from the split command line on: requiresPayload, readPayload *)
ParseParts(buf, nl, name, args) ==
    IF name = <<83, 69, 84>>
    THEN IF Len(args) < 2 THEN Parsed("err", nl, <<>>, "invalid arguments")
         ELSE readPayload(buf, nl, name, <<Atoi(args[2])>>, Atoi(args[2]).val)
    ELSE IF name = <<77, 83, 69, 84>>
    THEN IF Len(args) % 2 # 0 THEN Parsed("err", nl, <<>>, "invalid arguments")
         ELSE readPayload(buf, nl, name, [j \in 1..(Len(args) \div 2) |-> Atoi(args[2 * j])],
                          TotalLength([j \in 1..(Len(args) \div 2) |-> Atoi(args[2 * j])]))
    ELSE Parsed("ok", nl, name, "")

(* ParseCommand on the unread bytes buf whose first line ends at nl *)
ParseLine(buf, nl, parts) ==
    IF nl = 0 THEN ShortRead(buf, TRUE, Len(buf))
    ELSE IF parts = <<>> THEN Parsed("err", nl, <<>>, "invalid command")
    ELSE ParseParts(buf, nl, ToUpper(parts[1]), Tail(parts))

ParseCommand(buf) ==
    ParseLine(buf, IndexByte(buf, 10), Fields(TrimLine(buf, IndexByte(buf, 10))))

(* the requests a client sends: PING, SET k 1 with its payload, SET with a length
   that is no number, SET with a negative length, SET k 1 whose payload is not
   followed by CRLF, MSET with an odd number of arguments *)
Frames ==
    { <<80, 73, 78, 71, 13, 10>>,
      <<83, 69, 84, 32, 107, 32, 49, 13, 10, 97, 13, 10>>,
      <<83, 69, 84, 32, 107, 32, 120, 13, 10, 97, 13, 10>>,
      <<83, 69, 84, 32, 107, 32, 45, 49, 13, 10, 97, 13, 10>>,
      <<83, 69, 84, 32, 107, 32, 49, 13, 10, 97>>,
      <<77, 83, 69, 84, 32, 107, 32, 49, 32, 108, 13, 10, 97, 98, 13, 10>> }

(* the client writes one request to the connection *)
Send(f) ==
    /\ wire.open /\ ~wire.eof
    /\ Len(wire.sent) < MaxFrames
    /\ wire' = [wire EXCEPT !.buf = @ \o f, !.sent = Append(@, f)]
    /\ UNCHANGED <<phase, now, data, expiryHeap, diskVars, snapVars, lockVars, conn, sweepPc,
                   opCount, starts, lastOp, acked, preData, produced, applied, manifestDir>>

(* the client closes its side of the connection *)
ClientClose ==
    /\ wire.open /\ ~wire.eof
    /\ wire' = [wire EXCEPT !.eof = TRUE]
    /\ UNCHANGED <<phase, now, data, expiryHeap, diskVars, snapVars, lockVars, conn, sweepPc,
                   opCount, starts, lastOp, acked, preData, produced, applied, manifestDir>>

(* one turn of handleConnection's loop in which ParseCommand returns a command, which
   is processed, or an error of the parser, which is answered ERR BADREQ *)
Serve ==
    /\ wire.open
    /\ LET p == ParseCommand(wire.buf)
       IN  /\ p.st # "short"
           /\ wire' = [wire EXCEPT
                  !.buf = SubSeq(@, p.n + 1, Len(@)),
                  !.pos = @ + p.n,
                  !.out = Append(@, [kind |-> IF p.st = "ok" THEN "CMD" ELSE "BADREQ",
                                     name |-> p.name, err |-> p.err, at |-> wire.pos])]
    /\ UNCHANGED <<phase, now, data, expiryHeap, diskVars, snapVars, lockVars, conn, sweepPc,
                   opCount, starts, lastOp, acked, preData, produced, applied, manifestDir>>

(* one turn in which the read deadline passes inside ParseCommand: the error is no
   io.EOF and no net.ErrClosed, so it is answered ERR BADREQ and the loop continues *)
ReadDeadline ==
    /\ wire.open /\ ~wire.eof
    /\ wire.deadlines < MaxDeadlines
    /\ ParseCommand(wire.buf).st = "short"
    /\ wire' = [wire EXCEPT
           !.buf = <<>>,
           !.pos = @ + Len(wire.buf),
           !.deadlines = @ + 1,
           !.out = Append(@, [kind |-> "BADREQ", name |-> <<>>, err |-> "i/o timeout",
                              at |-> wire.pos])]
    /\ UNCHANGED <<phase, now, data, expiryHeap, diskVars, snapVars, lockVars, conn, sweepPc,
                   opCount, starts, lastOp, acked, preData, produced, applied, manifestDir>>

(* one turn in which a read meets the end of the stream: io.EOF from ReadString, or
   from a ReadFull that got no byte, ends the handler, whose deferred function
   removes the connection; io.ErrUnexpectedEOF is answered ERR BADREQ *)
ReadEOF ==
    /\ wire.open /\ wire.eof
    /\ LET p == ParseCommand(wire.buf)
       IN  /\ p.st = "short"
           /\ wire' = IF p.line \/ ~p.partial
                      THEN [wire EXCEPT !.open = FALSE]
                      ELSE [wire EXCEPT
                               !.buf = <<>>,
                               !.pos = @ + Len(wire.buf),
                               !.out = Append(@, [kind |-> "BADREQ", name |-> <<>>,
                                                  err |-> "unexpected EOF", at |-> wire.pos])]
    /\ UNCHANGED <<phase, now, data, expiryHeap, diskVars, snapVars, lockVars, conn, sweepPc,
                   opCount, starts, lastOp, acked, preData, produced, applied, manifestDir>>

NextWire ==
    \/ \E f \in Frames : Send(f)
    \/ ClientClose
    \/ Serve
    \/ ReadDeadline
    \/ ReadEOF

SpecWire == Init /\ [][NextWire]_vars

(* the number of bytes the client sent before its i-th request *)
RECURSIVE Offset(_, _)
Offset(sent, i) == IF i <= 1 THEN 0 ELSE Offset(sent, i - 1) + Len(sent[i - 1])

(* the step is a turn of handleConnection that starts at the first byte of the
   client's i-th request, a SET or an MSET, and answers it with the parser's error *)
RejectsRequest(i) ==
    /\ i <= Len(wire.sent)
    /\ wire.pos = Offset(wire.sent, i)
    /\ SubSeq(wire.sent[i], 1, 3) = <<83, 69, 84>> \/ SubSeq(wire.sent[i], 1, 4) = <<77, 83, 69, 84>>
    /\ Len(wire'.out) = Len(wire.out) + 1
    /\ wire'.out[Len(wire'.out)].kind = "BADREQ"
    /\ wire'.out[Len(wire'.out)].err \in {"invalid arguments", "invalid payload"}

(* C37: when the parser rejects a SET or MSET request, the server has read exactly
   that request, payload and trailing bytes included, and written one ERR BADREQ,
   so that the next parse starts at the first byte of the client's next request *)
C37_FramingSurvives ==
    [][\A i \in 1..MaxFrames :
          RejectsRequest(i) => wire'.pos = Offset(wire.sent, i + 1)]_vars

(* C38: when the read deadline of a connection passes and the client has sent no
   request, the handler returns and the connection leaves the connection set *)
C38_IdleConnectionClosed ==
    [][(wire.buf = <<>> /\ wire'.deadlines = wire.deadlines + 1) => ~wire'.open]_vars

---------------------------------------------------------------------------
(* persistent_store.go: Close, with the thread that calls it as one more entry of
   conn: "idle" before the call, "closing" from the closing of the stop channels on *)

Closer == "closer"

(* Close is called once the connection handlers have returned (Server.Shutdown):
   sweeperStop and snapshotStop are closed *)
CloseBegin ==
    /\ lastOp' = NoReply
    /\ phase = "up"
    /\ \A c \in DOMAIN conn : conn[c].pc = "idle"
    /\ conn' = [conn EXCEPT ![Closer].pc = "closing"]
    /\ UNCHANGED <<phase, now, data, expiryHeap, diskVars, snapVars, lockVars, sweepPc,
                   opCount, starts, ghostVars>>

(* both workers are at their select and return, Close receives from sweeperDone and
   snapshotDone and WALManager.Close takes the WAL manager's mutex *)
CloseReturn ==
    /\ phase = "up"
    /\ conn[Closer].pc = "closing"
    /\ sweepPc = "idle"
    /\ snapPc = "idle"
    /\ CanLock(walMu, "close")
    /\ ProcessExit("stopped")
    /\ preData' = data
    /\ lastOp' = Event("SHUTDOWN")
    /\ UNCHANGED <<now, diskVars, opCount, starts, acked, produced, applied, manifestDir, wire>>

(* the workers' tickers fire only until the stop channels are closed; a snapshot
   cycle that has begun runs to its end *)
NextClose ==
    \/ Tick
    \/ \E c \in Clients : Admit(c, "SET")
    \/ \E c \in Clients : Lock(c)
    \/ \E c \in Clients, k \in Keys, args \in {<<>>, <<Opt("EX", 1)>>}, skew \in Skews,
          outcome \in Outcomes : ExecSetLine(c, k, ValA, args, skew, outcome)
    \/ \E outcome \in {"ok", "fail"} : conn[Closer].pc = "idle" /\ Sweep(outcome)
    \/ conn[Closer].pc = "idle" /\ SnapBegin
    \/ \E outcome \in SnapOutcomes, rotation \in {"ok", "fail"} : SnapRun(outcome, rotation)
    \/ CloseBegin
    \/ CloseReturn

SpecClose ==
    /\ InitOn(Clients \cup {Closer}, Keys, EmptyMap)
    /\ [][NextClose]_vars
    /\ WF_vars(\E outcome \in SnapOutcomes, rotation \in {"ok", "fail"} : SnapRun(outcome, rotation))
    /\ WF_vars(CloseReturn)

(* C39: once Close has closed the stop channels, the workers stop and Close returns *)
C39_CloseReturns == (phase = "up" /\ conn[Closer].pc = "closing") ~> (phase = "stopped")

(* C40: an Incr that reports no error stores the mathematical sum of the integer
   it found (0 for a missing or expired key) and its delta, never a value that
   wrapped around the integer range *)
C40_IncrNeverWraps ==
    [][\A k \in StoreKeys :
          (lastOp'.client = "store" /\ lastOp'.op = "Incr" /\ lastOp'.key = k
              /\ lastOp'.status = "") =>
              LET old == IF k \in DOMAIN data /\ ~IsExpired(data[k], now)
                         THEN ParseInt(data[k].Value).val ELSE 0
              IN  /\ k \in DOMAIN data'
                  /\ \E delta \in StoreDeltas :
                        /\ data'[k].Value = FormatInt(old + delta)
                        /\ old + delta \in IntMin..IntMax]_vars

====
